---------------------------- MODULE Spec2Model ----------------------------
(***************************************************************************)
(* Conversation state, rate limiting, concurrency gate, retry executors,   *)
(* context optimizer and document retrieval of the legal RAG backend       *)
(* (src/src/services/chatService.ts, src/src/services/retrievalService.ts, *)
(* src/src/controllers/streamController.ts, src/src/utils/retry.ts).       *)
(*                                                                         *)
(* Several specifications share the variables:                             *)
(*   SpecRetry  the two retry executors run on an operation that fails or  *)
(*              succeeds nondeterministically;                             *)
(*   SpecRate   checkRateLimit / cleanupRateLimits of one user over time;  *)
(*   SpecWindow checkRateLimit alone, with a log of the admitted calls;    *)
(*   SpecState  direct calls on the conversation state of one id, with     *)
(*              time passing;                                              *)
(*   SpecOpt    optimizeOpenAIContext on histories of several sizes;       *)
(*   SpecGate   admission of concurrently started handleChat calls;        *)
(*   SpecChat   two handleChat invocations interleaved at their awaits;    *)
(*   SpecSearch one retrieval request, from searchRelevantDocuments to the *)
(*              caller's completion call, on a store that answers or fails *)
(*              nondeterministically;                                      *)
(*   SpecFormat formatSearchResults on hit lists in every order;           *)
(*   SpecSummary updateConversationSummary, one completion call at a time; *)
(*   SpecTurn   handleChat with summary regenerations that may fail;       *)
(*   SpecMerge  updateState with partial updates of every shape;           *)
(*   SpecTtl    optimizeOpenAIContext around the expiry of its context;    *)
(*   SpecCache  successive retrieval requests and the retrieval cache;     *)
(*   SpecFrame  operations of two conversation ids interleaved;            *)
(*   SpecAnswer generateResponseWithContext in its two variants, with the  *)
(*              three classification checks;                               *)
(*   SpecClear  clearConversation during a handleChat invocation;          *)
(*   SpecBackoff both retry executors under every policy;                  *)
(*   SpecRepeat optimizeOpenAIContext called again and again;              *)
(*   SpecForget clearConversation before a retrieval request;              *)
(*   SpecMessage handleMessage invocations interleaved at their awaits.    *)
(***************************************************************************)
EXTENDS Integers, Sequences, FiniteSets, TLC

VARIABLES
    now,                \* Date.now(), in milliseconds
    conversationStates, \* ChatService.conversationStates: userId -> ConversationState
    requestCounts,      \* ChatService.requestCounts: userId -> {count, timestamp}
    activeRequests,     \* ChatService.activeRequests
    rx,                 \* one run of a retry executor on a fallible operation
    last,               \* the last direct call made on the service and what it returned
    ticks,              \* number of clock advances so far
    req,                \* the handleChat invocations: position and local variables
    gate,               \* handleChat invocations of further users, counted by position
    search,             \* one retrieval request: position, store answers, what it did
    admitted,           \* <<userId, time>> -> number of direct checkRateLimit calls admitted
    regen,              \* one updateConversationSummary call: position, calls made
    conversationContexts, \* RetrievalService.conversationContexts: conversationId -> context
    answer              \* one generateResponseWithContext call: position, checks, calls

vars == <<now, conversationStates, requestCounts, activeRequests, rx, last, ticks, req, gate,
          search, admitted, regen, conversationContexts, answer>>

-----------------------------------------------------------------------------
(* Program constants *)

MAX_HISTORY_LENGTH == 10
MAX_TOTAL_TOKENS == 8000
STATE_EXPIRY_MS == 1800000
OPENAI_CONTEXT_EXPIRY_MS == 300000
MAX_KEY_POINTS == 5
RATE_WINDOW_MS == 60000
MAX_QUESTION_LENGTH == 1000
MAX_CHARS == 10000

\* combinedDocs.slice(0, 5)
MAX_SEARCH_RESULTS == 5

\* retrievalService, CONTEXT_EXPIRY_MS = 30 * 60 * 1000
CONTEXT_EXPIRY_MS == 1800000

\* safeSimilaritySearch(searchQuery, 3, ...) of the two discovery searches
DISCOVERY_LIMIT == 3

\* safeSimilaritySearch("", 5, chunksFilter)
CHUNK_FETCH_LIMIT == 5

\* previousDocuments.slice(0, 2) and searchResults.slice(0, 2)
CACHED_DOCUMENTS == 2

\* .join('\n').slice(0, 300)
QUERY_CONTEXT_CHARS == 300

retryConfig == [maxRetries |-> 3, backoffMs |-> 1000, maxBackoffMs |-> 5000]

rateLimitConfig == [maxRequestsPerMinute |-> 60, maxConcurrentRequests |-> 10]

defaultRetryOptions == [maxAttempts |-> 3, minDelay |-> 1000, maxDelay |-> 10000]

-----------------------------------------------------------------------------
(* Bounds of the model *)

\* largest maxAttempts of the policies handed to withRetry
MaxAttemptsBound == 4

\* number of clock advances in a behaviour
MaxTicks == 2

\* longest history handed to updateConversationHistory before an optimize
MaxOptHistory == 2

\* longest history and question list handed to updateState and
\* updateConversationHistory
MaxInputLength == 12

\* handleChat calls made by further users in a behaviour
MaxCalls == 11

\* optimize is not called again once the cached message list is this long
\* (the summary and key-points messages pile up in it from call to call)
MaxCached == 3

\* hits a summary search or a general search of the store answers with
MaxHits == 2

\* content chunks the store answers a per-case fetch with
MaxChunks == 2

\* largest chunkIndex of a stored content chunk
MaxChunkIndex == 2

\* longest hit list handed to formatSearchResults on its own
MaxFormatHits == 5

\* characters of the pageContent of a stored summary and of a content chunk
SummaryChars == 300

ChunkChars == 6000

-----------------------------------------------------------------------------
(* Small helpers *)

Min(a, b) == IF a <= b THEN a ELSE b

RECURSIVE Pow2(_)
Pow2(n) == IF n <= 0 THEN 1 ELSE 2 * Pow2(n - 1)

NoUser == "-"

\* last: the operation called, for whom, the boolean it returned (TRUE when it
\* returns none), what it found stored for the user ("none", "live" or
\* "expired", and the number of history entries) and a bit that flips with
\* every call
NoCall == [op |-> "none", user |-> NoUser, result |-> FALSE,
           found |-> [kind |-> "none", entries |-> 0], tick |-> 0]

-----------------------------------------------------------------------------
(* Retry executors.  A frame is the state of one execute() call: the loop   *)
(* variables of the code plus a record of what happened: calls (number of *)
(* invocations of the operation), waits (the delays handed to setTimeout)  *)
(* and fails (how many invocations threw).                                 *)
(* Errors are identified by the number of the invocation that threw them;  *)
(* 0 is null.                                                              *)

SuccessValue == "ok"

RetryFrame(kind, policy) ==
    [kind |-> kind, policy |-> policy, pc |-> "start",
     attempt |-> 1, backoff |-> policy.baseDelay, lastError |-> 0,
     result |-> "", calls |-> 0, waits |-> <<>>, fails |-> 0]

\* for (let attempt = 1; attempt <= max; attempt++) { try { return await operation()
RetryEnterLoop(f) ==
    IF f.attempt <= f.policy.maxAttempts
    THEN [f EXCEPT !.pc = "call", !.calls = @ + 1]
    ELSE [f EXCEPT !.pc = "raised"]

\* return await operation();
RetryOnSuccess(f, value) == [f EXCEPT !.pc = "returned", !.result = value]

\* mutant: the exponential delay without the maxDelay cap
UtilDelay_Uncapped(policy, attempt) == policy.baseDelay * Pow2(attempt - 1)

\* retry.ts: Math.min(minDelay * Math.pow(2, attempt - 1), maxDelay)
UtilDelay(policy, attempt) ==
    Min(policy.baseDelay * Pow2(attempt - 1), policy.maxDelay)

\* the delay handed to setTimeout after a failed attempt
RetryDelay(f) ==
    IF f.kind = "chat" THEN f.backoff ELSE UtilDelay(f.policy, f.attempt)

\* mutant: the break after the last attempt is missing, so it waits once more
RetryOnFailure_NoBreak(f, err) ==
    [f EXCEPT !.lastError = err, !.pc = "wait", !.fails = @ + 1,
              !.waits = Append(@, RetryDelay(f))]

\* catch (error): remember it, stop after the last attempt, otherwise wait
RetryOnFailure(f, err) ==
    IF f.attempt = f.policy.maxAttempts
    THEN [f EXCEPT !.lastError = err, !.pc = "raised", !.fails = @ + 1]
    ELSE [f EXCEPT !.lastError = err, !.pc = "wait", !.fails = @ + 1,
                   !.waits = Append(@, RetryDelay(f))]

\* chatService: backoff = Math.min(backoff * 2, maxBackoffMs) after the wait
NextBackoff(f) ==
    IF f.kind = "chat" THEN Min(f.backoff * 2, f.policy.maxDelay) ELSE f.backoff

\* the timer fires: update the backoff, attempt++ and re-enter the loop
RetryOnWake(f) ==
    RetryEnterLoop([f EXCEPT !.backoff = NextBackoff(f), !.attempt = @ + 1])

\* the policy of chatService.retryWithBackoff, in the executor's terms
ChatPolicy ==
    [maxAttempts |-> retryConfig.maxRetries, baseDelay |-> retryConfig.backoffMs,
     maxDelay |-> retryConfig.maxBackoffMs]

\* the policies withRetry is run with: its default and caller-supplied options
UtilPolicies ==
    {[maxAttempts |-> defaultRetryOptions.maxAttempts,
      baseDelay |-> defaultRetryOptions.minDelay,
      maxDelay |-> defaultRetryOptions.maxDelay]}
    \cup [maxAttempts : 1..MaxAttemptsBound, baseDelay : {500, 1000, 4000},
          maxDelay : {3000, 5000}]

IdleFrame == RetryFrame("none", ChatPolicy)

-----------------------------------------------------------------------------
(* handleChat invocations *)

Reqs == {"r1", "r2"}

NoQuestion == [text |-> "", len |-> 0]

\* the classification of an invocation that has not classified its question
NoClassification == [isFollowUp |-> FALSE, isNewCase |-> FALSE]

\* an invocation that has not been made yet
IdleReq ==
    [pc |-> "idle", user |-> NoUser, question |-> NoQuestion, errors |-> {},
     state |-> 0, updatedHistory |-> <<>>, messages |-> <<>>, optNow |-> 0,
     response |-> NoQuestion, retry |-> IdleFrame, wakeAt |-> 0,
     outcome |-> "none", classification |-> NoClassification]

\* handleChat invocations of further users, each with a valid question:
\* calls made so far, and how many are suspended after cleanupRateLimits
\* (cleaned), after a validateRequest that found no error (admitted) or that
\* found one (refused), and inside the pipeline (running)
IdleGate == [calls |-> 0, cleaned |-> 0, admitted |-> 0, refused |-> 0, running |-> 0]

\* the empty string as a formatted context: no block, no character
EmptyContext == [blocks |-> <<>>, len |-> 0, marked |-> FALSE]

\* no retrieval request has been made.  caseIds is the Set of discovered case
\* ids in insertion order, summaryMap the summary kept per case id, fetch the
\* per-case chunk fetches, results what searchRelevantDocuments returned,
\* context the string handed to the completion service, error what was raised
\* the query of a search that was not made
NoSearchQuery ==
    [query |-> NoQuestion, withContext |-> FALSE, docs |-> <<>>, chars |-> 0]

\* conversation is the id the request was made for, query its searchQuery and
\* issued the calls of safeSimilaritySearch it has made so far, in order
IdleSearch ==
    [pc |-> "idle", caller |-> "none", caseIds |-> <<>>, summaryMap |-> <<>>,
     fetch |-> <<>>, results |-> <<>>, context |-> EmptyContext, error |-> "none",
     conversation |-> NoUser, query |-> NoSearchQuery, issued |-> <<>>]

\* a classification check that has not been started
NoCheck == [status |-> "none", value |-> "none"]

\* no generateResponseWithContext call has been made.  variant is the class
\* whose method runs, question what the completion service would answer to
\* the three check prompts for the question asked, checks the three checks
\* (status "none", "pending", "ok" or "failed" and the value returned), calls
\* the completion calls made for checks and for the answer, result what the
\* method returned
IdleAnswer ==
    [pc |-> "idle", variant |-> "none", conversation |-> NoUser,
     question |-> [legal |-> FALSE, rag |-> FALSE, domain |-> "none"],
     checks |-> [legal |-> NoCheck, domain |-> NoCheck, rag |-> NoCheck],
     calls |-> [checks |-> 0, answer |-> 0], result |-> "none"]

\* no summary regeneration is running.  user is whose state it was handed,
\* state the identity of that object, calls the completion calls made so
\* far, before the summary, key points and lastAnalysis found on entry, path
\* how it ended and response the lines of the response it stored
IdleRegen ==
    [pc |-> "idle", user |-> NoUser, state |-> 0,
     calls |-> [analysis |-> 0, condensation |-> 0, fallback |-> 0],
     before |-> [summary |-> NoQuestion, keyPoints |-> <<>>, lastAnalysis |-> 0],
     path |-> "none", response |-> <<>>]

\* the ChatService and RetrievalService singletons after their constructors
InitService ==
    /\ now = 0
    /\ conversationStates = << >>
    /\ requestCounts = << >>
    /\ activeRequests = 0
    /\ last = NoCall
    /\ ticks = 0
    /\ req = [r \in Reqs |-> IdleReq]
    /\ gate = IdleGate
    /\ search = IdleSearch
    /\ admitted = << >>
    /\ regen = IdleRegen
    /\ conversationContexts = << >>
    /\ answer = IdleAnswer

-----------------------------------------------------------------------------
(* SpecRetry: one execute() call of either executor *)

RxStart ==
    /\ rx.pc = "start"
    /\ rx' = RetryEnterLoop(rx)
    /\ UNCHANGED <<now, conversationStates, requestCounts, activeRequests, last, ticks, req, gate, search, admitted, regen,
                   conversationContexts, answer>>

RxOperationSucceeds ==
    /\ rx.pc = "call"
    /\ rx' = RetryOnSuccess(rx, SuccessValue)
    /\ UNCHANGED <<now, conversationStates, requestCounts, activeRequests, last, ticks, req, gate, search, admitted, regen,
                   conversationContexts, answer>>

RxOperationFails ==
    /\ rx.pc = "call"
    /\ rx' = RetryOnFailure(rx, rx.calls)
    /\ UNCHANGED <<now, conversationStates, requestCounts, activeRequests, last, ticks, req, gate, search, admitted, regen,
                   conversationContexts, answer>>

RxWake ==
    /\ rx.pc = "wait"
    /\ rx' = RetryOnWake(rx)
    /\ UNCHANGED <<now, conversationStates, requestCounts, activeRequests, last, ticks, req, gate, search, admitted, regen,
                   conversationContexts, answer>>

InitRetry ==
    /\ InitService
    /\ rx \in {RetryFrame("chat", ChatPolicy)}
              \cup {RetryFrame("util", p) : p \in UtilPolicies}

NextRetry == RxStart \/ RxOperationSucceeds \/ RxOperationFails \/ RxWake

SpecRetry == InitRetry /\ [][NextRetry]_vars

\* C6: an operation that fails k < maxAttempts times and then succeeds makes
\* execute return the success value after exactly k+1 invocations and exactly
\* k waits, and no wait is longer than maxDelay; execute raises only when all
\* maxAttempts invocations failed.
C6_FailThenSucceed ==
    /\ rx.pc = "returned" =>
          /\ rx.result = SuccessValue
          /\ rx.fails < rx.policy.maxAttempts
          /\ rx.calls = rx.fails + 1
          /\ Len(rx.waits) = rx.fails
    /\ rx.pc = "raised" => rx.fails = rx.policy.maxAttempts
    /\ \A i \in DOMAIN rx.waits : rx.waits[i] <= rx.policy.maxDelay

C6_Witness ==
    /\ rx.pc = "returned"
    /\ rx.fails = rx.policy.maxAttempts - 1
    /\ rx.fails >= 2
    /\ \E i \in DOMAIN rx.waits : rx.waits[i] = rx.policy.maxDelay

\* C7: when every attempt fails, execute invokes the operation exactly
\* maxAttempts times, waits exactly maxAttempts-1 times (not after the last
\* failure) and raises the error of the last attempt; it never invokes the
\* operation more than maxAttempts times and never gets stuck before it
\* returns or raises.
C7_AllAttemptsFail ==
    /\ rx.calls <= rx.policy.maxAttempts
    /\ rx.pc = "raised" =>
          /\ rx.calls = rx.policy.maxAttempts
          /\ rx.fails = rx.policy.maxAttempts
          /\ Len(rx.waits) = rx.policy.maxAttempts - 1
          /\ rx.lastError = rx.calls
    /\ rx.pc \in {"returned", "raised"} \/ ENABLED NextRetry

C7_Witness ==
    /\ rx.pc = "raised"
    /\ rx.kind = "chat"
    /\ rx.waits = <<1000, 2000>>

-----------------------------------------------------------------------------
(* Rate limiter *)

Put(f, k, v) == [x \in DOMAIN f \cup {k} |-> IF x = k THEN v ELSE f[x]]

Remove(f, k) == [x \in DOMAIN f \ {k} |-> f[x]]

\* mutant: the limit test lets one request too many through
CheckRateLimit_OffByOne(counts, u, t) ==
    IF u \notin DOMAIN counts \/ t - counts[u].timestamp > RATE_WINDOW_MS
    THEN [ok |-> TRUE, counts |-> Put(counts, u, [count |-> 1, timestamp |-> t])]
    ELSE IF counts[u].count > rateLimitConfig.maxRequestsPerMinute
    THEN [ok |-> FALSE, counts |-> counts]
    ELSE [ok |-> TRUE, counts |-> [counts EXCEPT ![u].count = @ + 1]]

\* checkRateLimit(userId) at time t: what it returns and the map it leaves
CheckRateLimit(counts, u, t) ==
    IF u \notin DOMAIN counts
    THEN [ok |-> TRUE, counts |-> Put(counts, u, [count |-> 1, timestamp |-> t])]
    ELSE IF t - counts[u].timestamp > RATE_WINDOW_MS
    THEN [ok |-> TRUE, counts |-> Put(counts, u, [count |-> 1, timestamp |-> t])]
    ELSE IF counts[u].count >= rateLimitConfig.maxRequestsPerMinute
    THEN [ok |-> FALSE, counts |-> counts]
    ELSE [ok |-> TRUE, counts |-> [counts EXCEPT ![u].count = @ + 1]]

\* cleanupRateLimits() at time t
CleanupRateLimits(counts, t) ==
    [x \in {u \in DOMAIN counts : ~(t - counts[u].timestamp > RATE_WINDOW_MS)}
        |-> counts[x]]

-----------------------------------------------------------------------------
(* Conversation state.  A text is a JavaScript string, kept as a label and  *)
(* its length in characters; equality of texts is equality of strings.     *)

Text(t, n) == [text |-> t, len |-> n]

EmptyText == Text("", 0)

\* if (s) on a string: the empty string (and undefined) are falsy
Truthy(s) == s.len > 0

Msg(role, content) == [role |-> role, content |-> content]

NoCase == "undefined"

NoAnalysis == -1

\* the object literal of getOrCreateState; oid names the object itself
NewState(t, oid) ==
    [oid |-> oid,
     currentCase |-> NoCase,
     isFollowUpQuestion |-> FALSE,
     previousQuestions |-> <<>>,
     lastResponse |-> EmptyText,
     timestamp |-> t,
     history |-> <<>>,
     openAIContext |-> [messages |-> <<>>, lastTokenCount |-> 0,
                        lastUpdateTime |-> t, summary |-> EmptyText,
                        keyPoints |-> <<>>, lastAnalysis |-> NoAnalysis]]

\* array.slice(-n) for n > 0
SliceLast(s, n) ==
    IF Len(s) <= n THEN s ELSE SubSeq(s, Len(s) - n + 1, Len(s))

\* array.slice(0, n)
SliceFirst(s, n) == IF Len(s) <= n THEN s ELSE SubSeq(s, 1, n)

\* mutant: an expired state is kept instead of being replaced
GetOrCreateState_NoExpiry(states, u, t, oid) ==
    IF u \in DOMAIN states THEN states ELSE Put(states, u, NewState(t, oid))

\* mutant: every access stamps the stored state with the current time
GetOrCreateState_Touch(states, u, t, oid) ==
    IF u \in DOMAIN states /\ ~(t - states[u].timestamp > STATE_EXPIRY_MS)
    THEN [states EXCEPT ![u].timestamp = t]
    ELSE Put(states, u, NewState(t, oid))

\* getOrCreateState(userId) at time t; the state it returns is result[u].
\* oid is the identity a newly created object gets.
GetOrCreateState(states, u, t, oid) ==
    LET created == IF u \in DOMAIN states
                   THEN states
                   ELSE Put(states, u, NewState(t, oid))
    IN  IF t - created[u].timestamp > STATE_EXPIRY_MS
        THEN Put(created, u, NewState(t, oid))
        ELSE created

\* Partial<ConversationState>: has is the set of keys the caller provides
Partial(has, history, previousQuestions, lastResponse, currentCase, followUp) ==
    [has |-> has, history |-> history, previousQuestions |-> previousQuestions,
     lastResponse |-> lastResponse, currentCase |-> currentCase,
     isFollowUpQuestion |-> followUp]

\* mutant: the history is stored without the slice
ApplyUpdates_NoSlice(st, updates, t) ==
    [st EXCEPT
       !.previousQuestions =
           IF "previousQuestions" \in updates.has
           THEN updates.previousQuestions ELSE @,
       !.history = IF "history" \in updates.has THEN updates.history ELSE @,
       !.timestamp = t]

\* the body of updateState after its getOrCreateState
ApplyUpdates(st, updates, t) ==
    [st EXCEPT
       !.currentCase =
           IF "currentCase" \in updates.has /\ updates.currentCase # NoCase
           THEN updates.currentCase ELSE @,
       !.isFollowUpQuestion =
           IF "isFollowUpQuestion" \in updates.has
           THEN updates.isFollowUpQuestion ELSE @,
       !.previousQuestions =
           IF "previousQuestions" \in updates.has
           THEN SliceLast(updates.previousQuestions, MAX_HISTORY_LENGTH) ELSE @,
       !.lastResponse =
           IF "lastResponse" \in updates.has /\ Truthy(updates.lastResponse)
           THEN updates.lastResponse ELSE @,
       !.history =
           IF "history" \in updates.has
           THEN SliceLast(updates.history, MAX_HISTORY_LENGTH) ELSE @,
       !.timestamp = t]

\* updateState(userId, updates) at time t
UpdateState(states, u, updates, t, oid) ==
    LET got == GetOrCreateState(states, u, t, oid)
    IN  Put(got, u, ApplyUpdates(got[u], updates, t))

\* updateConversationHistory(userId, history) at time t
UpdateConversationHistory(states, u, history, t, oid) ==
    LET got == GetOrCreateState(states, u, t, oid)
    IN  Put(got, u, [got[u] EXCEPT
                       !.history = SliceLast(history, MAX_HISTORY_LENGTH),
                       !.timestamp = t])

\* mutant: the whole map is cleared
ClearConversation_All(states, u) == << >>

\* clearConversation(userId)
ClearConversation(states, u) == Remove(states, u)

-----------------------------------------------------------------------------
(* Context optimizer *)

\* SYSTEM_PROMPTS.LEGAL, 461 characters
SystemMessage == Msg("system", Text("SYSTEM_PROMPTS.LEGAL", 461))

\* Math.ceil(n / 4)
CeilDiv4(n) == (n + 3) \div 4

\* estimateTokenCount(messages)
RECURSIVE EstimateTokenCount(_)
EstimateTokenCount(messages) ==
    IF messages = <<>> THEN 0
    ELSE CeilDiv4(Head(messages).content.len) + EstimateTokenCount(Tail(messages))

\* `Previous conversation summary: ${summary}`
SummaryMessage(summary) ==
    Msg("system", Text("Previous conversation summary: " \o summary.text,
                       31 + summary.len))

\* keyPoints.join('\n')
RECURSIVE JoinLines(_)
JoinLines(texts) ==
    IF texts = <<>> THEN EmptyText
    ELSE IF Len(texts) = 1 THEN Head(texts)
    ELSE LET rest == JoinLines(Tail(texts))
         IN  Text(Head(texts).text \o "/" \o rest.text,
                  Head(texts).len + 1 + rest.len)

\* `Key points from previous conversation:\n${keyPoints.join('\n')}`
KeyPointsMessage(keyPoints) ==
    LET joined == JoinLines(keyPoints)
    IN  Msg("system", Text("Key points from previous conversation:/" \o joined.text,
                           39 + joined.len))

Contents(messages) == {messages[i].content : i \in DOMAIN messages}

\* mutant: every recent entry is appended, whatever the list holds already
AddRecent_NoDedup(messages, recent) == messages \o recent

\* recentHistory.forEach: push every entry whose content is not yet present
RECURSIVE AddRecent(_, _)
AddRecent(messages, recent) ==
    IF recent = <<>> THEN messages
    ELSE IF Head(recent).content \in Contents(messages)
    THEN AddRecent(messages, Tail(recent))
    ELSE AddRecent(Append(messages, Head(recent)), Tail(recent))

\* messages.find(m => m.role === 'system'), for a list that holds one
FirstSystem(messages) ==
    messages[CHOOSE i \in DOMAIN messages :
                /\ messages[i].role = "system"
                /\ \A j \in 1..(i - 1) : messages[j].role # "system"]

\* mutant: an entry that does not fit is skipped and older ones are still tried
RECURSIVE KeepFitting_Continue(_, _, _)
KeepFitting_Continue(messages, recent, i) ==
    IF i < 1 THEN messages
    ELSE IF EstimateTokenCount(Append(messages, recent[i])) <= MAX_TOTAL_TOKENS
    THEN KeepFitting_Continue(Append(messages, recent[i]), recent, i - 1)
    ELSE KeepFitting_Continue(messages, recent, i - 1)

\* for (i = recentHistory.length - 1; i >= 0; i--): push while it fits, else break
RECURSIVE KeepFitting(_, _, _)
KeepFitting(messages, recent, i) ==
    IF i < 1 THEN messages
    ELSE IF EstimateTokenCount(Append(messages, recent[i])) <= MAX_TOTAL_TOKENS
    THEN KeepFitting(Append(messages, recent[i]), recent, i - 1)
    ELSE messages

\* mutant: the cached context is already expired at exactly the expiry time
ContextExpired_AtTtl(st, t) ==
    t - st.openAIContext.lastUpdateTime >= OPENAI_CONTEXT_EXPIRY_MS

\* now - state.openAIContext.lastUpdateTime > this.OPENAI_CONTEXT_EXPIRY_MS
ContextExpired(st, t) ==
    t - st.openAIContext.lastUpdateTime > OPENAI_CONTEXT_EXPIRY_MS

\* optimizeOpenAIContext up to its await: the state after the expiry reset,
\* the message list, and whether the over-budget branch was taken
OptimizeBuild(st, t) ==
    LET expired == ContextExpired(st, t)
        ctx == IF expired
               THEN [st.openAIContext EXCEPT !.lastTokenCount = 0,
                                             !.summary = EmptyText,
                                             !.keyPoints = <<>>]
               ELSE st.openAIContext
        m0 == IF expired THEN SliceLast(st.history, 3) ELSE st.openAIContext.messages
        m1 == IF \E i \in DOMAIN m0 : m0[i].role = "system"
              THEN m0 ELSE <<SystemMessage>> \o m0
        recent == SliceLast(st.history, MAX_HISTORY_LENGTH)
        m2 == IF Truthy(ctx.summary) THEN Append(m1, SummaryMessage(ctx.summary)) ELSE m1
        m3 == IF Len(ctx.keyPoints) > 0
              THEN Append(m2, KeyPointsMessage(ctx.keyPoints)) ELSE m2
        m4 == AddRecent(m3, recent)
        over == EstimateTokenCount(m4) > MAX_TOTAL_TOKENS
    IN  [state |-> [st EXCEPT !.openAIContext = ctx],
         messages |-> IF over
                      THEN KeepFitting(<<FirstSystem(m4)>>, recent, Len(recent))
                      ELSE m4,
         over |-> over,
         expired |-> expired,
         recentHistory |-> recent]

\* optimizeOpenAIContext, "Update context state"; t is the now read on entry
OptimizeCommit(st, messages, t) ==
    [st EXCEPT !.openAIContext.messages = messages,
               !.openAIContext.lastTokenCount = EstimateTokenCount(messages),
               !.openAIContext.lastUpdateTime = t]

\* const [summary, ...keyPoints] = lines without the blank ones
ParseSummary(lines) ==
    IF lines = <<>>
    THEN [summary |-> Text("undefined", 0), keyPoints |-> <<>>]
    ELSE [summary |-> Head(lines), keyPoints |-> Tail(lines)]

\* mutant: all the key points of the response are stored
UpdateConversationSummary_NoSlice(st, outcome, t) ==
    IF outcome.path = "failed" THEN st
    ELSE [st EXCEPT !.openAIContext.summary = ParseSummary(outcome.lines).summary,
                    !.openAIContext.keyPoints = ParseSummary(outcome.lines).keyPoints]

\* mutant: a regeneration that failed altogether clears what was stored
UpdateConversationSummary_ClearOnFailure(st, outcome, t) ==
    IF outcome.path = "failed"
    THEN [st EXCEPT !.openAIContext.summary = EmptyText,
                    !.openAIContext.keyPoints = <<>>]
    ELSE LET parsed == ParseSummary(outcome.lines)
             stored == [st EXCEPT
                          !.openAIContext.summary = parsed.summary,
                          !.openAIContext.keyPoints =
                              SliceFirst(parsed.keyPoints, MAX_KEY_POINTS)]
         IN  IF outcome.path = "primary"
             THEN [stored EXCEPT !.openAIContext.lastAnalysis = t]
             ELSE stored

\* updateConversationSummary(state, ...) once its completion calls are over.
\* outcome.path is "primary" (analysis and summary call succeeded),
\* "fallback" (one of them failed, the fallback call succeeded) or "failed".
UpdateConversationSummary(st, outcome, t) ==
    LET parsed == ParseSummary(outcome.lines)
        stored == [st EXCEPT
                     !.openAIContext.summary = parsed.summary,
                     !.openAIContext.keyPoints =
                         SliceFirst(parsed.keyPoints, MAX_KEY_POINTS)]
    IN  IF outcome.path = "primary"
        THEN [stored EXCEPT !.openAIContext.lastAnalysis = t]
        ELSE IF outcome.path = "fallback" THEN stored
        ELSE st

-----------------------------------------------------------------------------
(* SpecRate: one user's admissions over time *)

RateUsers == {"u1"}

RateTickSteps == {1, RATE_WINDOW_MS}

Tick(d) ==
    /\ ticks < MaxTicks
    /\ ticks' = ticks + 1
    /\ now' = now + d
    /\ UNCHANGED <<conversationStates, requestCounts, activeRequests, rx, last, req, gate, search, admitted, regen,
                   conversationContexts, answer>>

RateTick == \E d \in RateTickSteps : Tick(d)

CheckRateLimitCall ==
    \E u \in RateUsers :
        LET r == CheckRateLimit(requestCounts, u, now) IN
        /\ requestCounts' = r.counts
        /\ last' = [op |-> "checkRateLimit", user |-> u, result |-> r.ok,
                    found |-> NoCall.found, tick |-> 1 - last.tick]
        /\ UNCHANGED <<now, conversationStates, activeRequests, rx, ticks, req, gate, search, admitted, regen,
                   conversationContexts, answer>>

CleanupRateLimitsCall ==
    /\ requestCounts' = CleanupRateLimits(requestCounts, now)
    /\ last' = [op |-> "cleanupRateLimits", user |-> NoUser, result |-> TRUE,
                found |-> NoCall.found, tick |-> 1 - last.tick]
    /\ UNCHANGED <<now, conversationStates, activeRequests, rx, ticks, req, gate, search, admitted, regen,
                   conversationContexts, answer>>

InitRate == InitService /\ rx = IdleFrame

NextRate == RateTick \/ CheckRateLimitCall \/ CleanupRateLimitsCall

SpecRate == InitRate /\ [][NextRate]_vars

\* a step in which checkRateLimit(u) was called
Admitting(u) ==
    /\ last'.tick # last.tick
    /\ last'.op = "checkRateLimit"
    /\ last'.user = u

\* u has a record whose window has not expired
InWindow(u) ==
    /\ u \in DOMAIN requestCounts
    /\ now - requestCounts[u].timestamp <= RATE_WINDOW_MS

\* C2: for one user, a call made with no record or more than 60 s after
\* windowStart returns true and leaves the record at count = 1, windowStart =
\* now; a call inside the window returns true and counts one more while fewer
\* than maxRequestsPerMinute calls were admitted in it, so exactly
\* maxRequestsPerMinute calls of a window are admitted; every further call in
\* the window returns false and leaves the record unchanged.
C2_RateWindow ==
    [][\A u \in RateUsers : Admitting(u) =>
          IF ~InWindow(u)
          THEN /\ last'.result
               /\ requestCounts'[u] = [count |-> 1, timestamp |-> now]
          ELSE IF requestCounts[u].count < rateLimitConfig.maxRequestsPerMinute
          THEN /\ last'.result
               /\ requestCounts'[u].count = requestCounts[u].count + 1
               /\ requestCounts'[u].count <= rateLimitConfig.maxRequestsPerMinute
               /\ requestCounts'[u].timestamp = requestCounts[u].timestamp
          ELSE /\ ~last'.result
               /\ requestCounts[u].count = rateLimitConfig.maxRequestsPerMinute
               /\ requestCounts' = requestCounts]_vars

\* the 61st call of a window was rejected
C2_Witness ==
    /\ last.op = "checkRateLimit"
    /\ ~last.result
    /\ "u1" \in DOMAIN requestCounts
    /\ requestCounts["u1"].count = rateLimitConfig.maxRequestsPerMinute
    /\ requestCounts["u1"].timestamp > RATE_WINDOW_MS

-----------------------------------------------------------------------------
(* SpecWindow: checkRateLimit of one user over time, with the admissions   *)
(* kept by the time at which they were made                                *)

\* checkRateLimit(u) is called and, when it admits, the admission is noted
CheckRateLimitNoted ==
    \E u \in RateUsers :
        LET r == CheckRateLimit(requestCounts, u, now) IN
        /\ requestCounts' = r.counts
        /\ admitted' = IF r.ok
                       THEN Put(admitted, <<u, now>>,
                                IF <<u, now>> \in DOMAIN admitted
                                THEN admitted[<<u, now>>] + 1 ELSE 1)
                       ELSE admitted
        /\ UNCHANGED <<now, conversationStates, activeRequests, rx, last, ticks, req,
                       gate, search, regen, conversationContexts, answer>>

InitWindow == InitService /\ rx = IdleFrame

NextWindow == RateTick \/ CheckRateLimitNoted

SpecWindow == InitWindow /\ [][NextWindow]_vars

\* the sum of f over the keys in S
RECURSIVE SumOver(_, _)
SumOver(f, S) ==
    IF S = {} THEN 0
    ELSE LET k == CHOOSE x \in S : TRUE IN f[k] + SumOver(f, S \ {k})

\* the number of calls of u admitted at a time t with a <= t < a + RATE_WINDOW_MS
AdmittedFrom(u, a) ==
    SumOver(admitted, {k \in DOMAIN admitted :
                          k[1] = u /\ a <= k[2] /\ k[2] < a + RATE_WINDOW_MS})

\* C18: for every user, at most maxRequestsPerMinute requests are admitted in
\* any interval of 60 seconds, wherever the interval starts.
C18_SlidingWindow ==
    \A k \in DOMAIN admitted :
        AdmittedFrom(k[1], k[2]) <= rateLimitConfig.maxRequestsPerMinute

-----------------------------------------------------------------------------
(* Direct calls on the conversation state *)

\* the identity of the next state object: the least one that neither the map
\* (u's own entry aside, which is being replaced) nor an invocation refers to
FreshOid(states, u) ==
    LET used == {req[r].state : r \in Reqs}
                \cup {states[v].oid : v \in DOMAIN states \ {u}}
    IN  CHOOSE n \in 1..(Cardinality(used) + 1) :
            /\ n \notin used
            /\ \A m \in 1..(n - 1) : m \in used

\* what a call for u finds in the map
Found(u) ==
    IF u \notin DOMAIN conversationStates
    THEN [kind |-> "none", entries |-> 0]
    ELSE [kind |-> IF now - conversationStates[u].timestamp > STATE_EXPIRY_MS
                   THEN "expired" ELSE "live",
          entries |-> Len(conversationStates[u].history)]

Called(op, u, result) ==
    last' = [op |-> op, user |-> u, result |-> result, found |-> Found(u),
             tick |-> 1 - last.tick]

GetOrCreateStateCall(u) ==
    /\ conversationStates' =
           GetOrCreateState(conversationStates, u, now, FreshOid(conversationStates, u))
    /\ Called("getOrCreateState", u, TRUE)
    /\ UNCHANGED <<now, requestCounts, activeRequests, rx, ticks, req, gate, search, admitted, regen,
                   conversationContexts, answer>>

UpdateStateCall(u, updates) ==
    /\ conversationStates' =
           UpdateState(conversationStates, u, updates, now,
                       FreshOid(conversationStates, u))
    /\ Called("updateState", u, TRUE)
    /\ UNCHANGED <<now, requestCounts, activeRequests, rx, ticks, req, gate, search, admitted, regen,
                   conversationContexts, answer>>

UpdateConversationHistoryCall(u, history) ==
    /\ conversationStates' =
           UpdateConversationHistory(conversationStates, u, history, now,
                                     FreshOid(conversationStates, u))
    /\ Called("updateConversationHistory", u, TRUE)
    /\ UNCHANGED <<now, requestCounts, activeRequests, rx, ticks, req, gate, search, admitted, regen,
                   conversationContexts, answer>>

ClearConversationCall(u) ==
    /\ conversationStates' = ClearConversation(conversationStates, u)
    /\ Called("clearConversation", u, TRUE)
    /\ UNCHANGED <<now, requestCounts, activeRequests, rx, ticks, req, gate, search, admitted, regen,
                   conversationContexts, answer>>

\* optimizeOpenAIContext(state) run to completion by a single caller;
\* outcome is how the summary regeneration of the over-budget branch ends.
\* The list it returns is the one it stores in openAIContext.messages; the
\* boolean recorded is whether the over-budget branch was taken.
OptimizeCall(u, outcome) ==
    /\ u \in DOMAIN conversationStates
    /\ Len(conversationStates[u].openAIContext.messages) < MaxCached
    /\ LET b == OptimizeBuild(conversationStates[u], now)
           summarized == IF b.over
                         THEN UpdateConversationSummary(b.state, outcome, now)
                         ELSE b.state
       IN  /\ conversationStates' =
                  Put(conversationStates, u, OptimizeCommit(summarized, b.messages, now))
           /\ Called("optimize", u, b.over)
    /\ UNCHANGED <<now, requestCounts, activeRequests, rx, ticks, req, gate, search, admitted, regen,
                   conversationContexts, answer>>

\* updateConversationSummary(state, history) run to completion
UpdateConversationSummaryCall(u, outcome) ==
    /\ u \in DOMAIN conversationStates
    /\ conversationStates' =
           Put(conversationStates, u,
               UpdateConversationSummary(conversationStates[u], outcome, now))
    /\ Called("updateConversationSummary", u, TRUE)
    /\ UNCHANGED <<now, requestCounts, activeRequests, rx, ticks, req, gate, search, admitted, regen,
                   conversationContexts, answer>>

-----------------------------------------------------------------------------
(* updateConversationSummary, one completion call at a time *)

\* the state object the regeneration was handed, while the map still holds it
RegenTarget ==
    /\ regen.user \in DOMAIN conversationStates
    /\ conversationStates[regen.user].oid = regen.state

\* the assignments of the regeneration, made on the object it was handed
RegenStore(outcome) ==
    IF RegenTarget
    THEN Put(conversationStates, regen.user,
             UpdateConversationSummary(conversationStates[regen.user], outcome, now))
    ELSE conversationStates

\* updateConversationSummary(state, recentHistory) up to the await of the
\* analysis call
RegenStart(u) ==
    /\ regen.pc \in {"idle", "done"}
    /\ u \in DOMAIN conversationStates
    /\ regen' = [IdleRegen EXCEPT
                    !.pc = "analysis", !.user = u,
                    !.state = conversationStates[u].oid,
                    !.calls.analysis = 1,
                    !.before = [summary |-> conversationStates[u].openAIContext.summary,
                                keyPoints |-> conversationStates[u].openAIContext.keyPoints,
                                lastAnalysis |->
                                    conversationStates[u].openAIContext.lastAnalysis]]
    /\ UNCHANGED <<now, conversationStates, requestCounts, activeRequests, rx, last,
                   ticks, req, gate, search, admitted, conversationContexts, answer>>

\* the analysis call answers: JSON.parse of the answer succeeds and the
\* condensation call is awaited, or it throws and the fallback call is awaited
RegenAnalysisReturns(parses) ==
    /\ regen.pc = "analysis"
    /\ regen' = IF parses
                THEN [regen EXCEPT !.pc = "condensation", !.calls.condensation = @ + 1]
                ELSE [regen EXCEPT !.pc = "fallback", !.calls.fallback = @ + 1]
    /\ UNCHANGED <<now, conversationStates, requestCounts, activeRequests, rx, last,
                   ticks, req, gate, search, admitted, conversationContexts, answer>>

\* the analysis call or the condensation call throws: catch, fallback call
RegenPrimaryFails ==
    /\ regen.pc \in {"analysis", "condensation"}
    /\ regen' = [regen EXCEPT !.pc = "fallback", !.calls.fallback = @ + 1]
    /\ UNCHANGED <<now, conversationStates, requestCounts, activeRequests, rx, last,
                   ticks, req, gate, search, admitted, conversationContexts, answer>>

\* the condensation call answers: summary, key points and lastAnalysis are set
RegenCondensationReturns(lines) ==
    /\ regen.pc = "condensation"
    /\ conversationStates' = RegenStore([path |-> "primary", lines |-> lines])
    /\ regen' = [regen EXCEPT !.pc = "done", !.path = "primary", !.response = lines]
    /\ UNCHANGED <<now, requestCounts, activeRequests, rx, last, ticks, req, gate,
                   search, admitted, conversationContexts, answer>>

\* the fallback call answers: summary and key points are set
RegenFallbackReturns(lines) ==
    /\ regen.pc = "fallback"
    /\ conversationStates' = RegenStore([path |-> "fallback", lines |-> lines])
    /\ regen' = [regen EXCEPT !.pc = "done", !.path = "fallback", !.response = lines]
    /\ UNCHANGED <<now, requestCounts, activeRequests, rx, last, ticks, req, gate,
                   search, admitted, conversationContexts, answer>>

\* the fallback call throws: catch (fallbackError), logged only
RegenFallbackFails ==
    /\ regen.pc = "fallback"
    /\ conversationStates' = RegenStore([path |-> "failed", lines |-> <<>>])
    /\ regen' = [regen EXCEPT !.pc = "done", !.path = "failed"]
    /\ UNCHANGED <<now, requestCounts, activeRequests, rx, last, ticks, req, gate,
                   search, admitted, conversationContexts, answer>>

-----------------------------------------------------------------------------
(* Inputs *)

Q1 == Text("q1", 40)

A1 == Text("a1", 2000)

UserQ == Msg("user", Q1)

AsstA == Msg("assistant", A1)

S1 == Text("s1", 300)

K(i) == Text("k" \o ToString(i), 80)

\* how a summary regeneration can end: both paths failing, or a response of
\* one line, or one with a summary and MAX_KEY_POINTS + 1 further lines
SummaryOutcomes ==
    {[path |-> "failed", lines |-> <<>>]}
    \cup [path : {"primary", "fallback"},
          lines : {<<S1>>, <<S1>> \o [i \in 1..(MAX_KEY_POINTS + 1) |-> K(i)]}]

-----------------------------------------------------------------------------
(* SpecState: the conversation state of one id under direct calls and time *)

StateUsers == {"u1"}

StateTickSteps == {1, STATE_EXPIRY_MS}

\* a conversation of MaxInputLength messages, questions and answers in turn
LongHistory == [i \in 1..MaxInputLength |-> IF i % 2 = 1 THEN UserQ ELSE AsstA]

LongQuestions == [i \in 1..MaxInputLength |-> Q1]

StateHistories == {LongHistory}

\* updates of the shapes handleChat and handleMessage pass to updateState
StatePartials ==
    {Partial({"history", "previousQuestions"}, LongHistory, LongQuestions,
             EmptyText, NoCase, FALSE),
     Partial({"currentCase", "lastResponse"}, <<>>, <<>>, A1, "case1", FALSE)}

StateOutcomes ==
    {[path |-> "primary", lines |-> <<S1, K(1)>>],
     [path |-> "fallback",
      lines |-> <<S1>> \o [i \in 1..(MAX_KEY_POINTS + 1) |-> K(i)]]}

StateTick == \E d \in StateTickSteps : Tick(d)

InitState == InitService /\ rx = IdleFrame

NextState ==
    \/ StateTick
    \/ \E u \in StateUsers :
          \/ GetOrCreateStateCall(u)
          \/ \E p \in StatePartials : UpdateStateCall(u, p)
          \/ \E h \in StateHistories : UpdateConversationHistoryCall(u, h)
          \/ ClearConversationCall(u)
          \/ \E o \in StateOutcomes : OptimizeCall(u, o)
          \/ \E o \in StateOutcomes : UpdateConversationSummaryCall(u, o)

SpecState == InitState /\ [][NextState]_vars

\* a step in which op was called for u
CallStep(op, u) ==
    /\ last'.tick # last.tick
    /\ last'.op = op
    /\ last'.user = u

\* st is the empty state created at time t
IsEmptyState(st, t) ==
    /\ st.history = <<>>
    /\ st.previousQuestions = <<>>
    /\ st.lastResponse = EmptyText
    /\ st.openAIContext.messages = <<>>
    /\ st.openAIContext.summary = EmptyText
    /\ st.openAIContext.keyPoints = <<>>
    /\ st.timestamp = t

\* C10: getOrCreateState(id) on a stored state with now - timestamp >
\* STATE_EXPIRY_MS replaces it by a fresh empty state (empty history,
\* previousQuestions, lastResponse, cached messages, summary, key points),
\* which is the state it returns; with now - timestamp <= STATE_EXPIRY_MS it
\* returns the stored state and leaves it exactly as it was.
C10_StateExpiry ==
    [][\A u \in StateUsers :
          CallStep("getOrCreateState", u) /\ u \in DOMAIN conversationStates =>
              IF now - conversationStates[u].timestamp > STATE_EXPIRY_MS
              THEN IsEmptyState(conversationStates'[u], now)
              ELSE conversationStates'[u] = conversationStates[u]]_vars

\* getOrCreateState found an expired state holding a full history; the state
\* stored now is empty and stamped with the time of the call
C10_Witness ==
    /\ last.op = "getOrCreateState"
    /\ last.found = [kind |-> "expired", entries |-> MAX_HISTORY_LENGTH]
    /\ "u1" \in DOMAIN conversationStates
    /\ IsEmptyState(conversationStates["u1"], conversationStates["u1"].timestamp)
    /\ conversationStates["u1"].timestamp = STATE_EXPIRY_MS + 1

\* C16: for every conversation, whatever operations were applied (summary
\* regeneration by either path, context expiry, state expiry), the stored key
\* points number at most MAX_KEY_POINTS.
C16_BoundedKeyPoints ==
    \A u \in DOMAIN conversationStates :
        Len(conversationStates[u].openAIContext.keyPoints) <= MAX_KEY_POINTS

\* a response with more key points than the limit was stored at the limit
C16_Witness ==
    /\ last.op = "updateConversationSummary"
    /\ "u1" \in DOMAIN conversationStates
    /\ Len(conversationStates["u1"].openAIContext.keyPoints) = MAX_KEY_POINTS
    /\ conversationStates["u1"].openAIContext.keyPoints[MAX_KEY_POINTS] = K(MAX_KEY_POINTS)

\* C17: getOrCreateState(id) on an absent id creates an empty state; called
\* again with no other call in between and within STATE_EXPIRY_MS, it returns
\* the state the first call returned, unchanged.
C17_Idempotent ==
    [][\A u \in StateUsers :
          CallStep("getOrCreateState", u) =>
              /\ u \notin DOMAIN conversationStates =>
                    /\ u \in DOMAIN conversationStates'
                    /\ IsEmptyState(conversationStates'[u], now)
              /\ (/\ last.op = "getOrCreateState"
                  /\ last.user = u
                  /\ u \in DOMAIN conversationStates
                  /\ now - conversationStates[u].timestamp <= STATE_EXPIRY_MS)
                    => conversationStates'[u] = conversationStates[u]]_vars

\* a getOrCreateState found, live and still empty, the state that a
\* getOrCreateState had created at time 0
C17_Witness ==
    /\ last.op = "getOrCreateState"
    /\ last.found = [kind |-> "live", entries |-> 0]
    /\ "u1" \in DOMAIN conversationStates
    /\ IsEmptyState(conversationStates["u1"], 0)
    /\ now = STATE_EXPIRY_MS

-----------------------------------------------------------------------------
(* SpecSummary: summary regenerations of one conversation, one after the    *)
(* other, each completion call answering or failing                        *)

S2 == Text("s2", 250)

\* the non-blank lines of a condensation or fallback response: none, a
\* summary with one key point, another summary with MAX_KEY_POINTS + 1
SummaryResponses ==
    {<<>>, <<S1, K(1)>>, <<S2>> \o [i \in 1..(MAX_KEY_POINTS + 1) |-> K(i)]}

SummaryTickSteps == {1}

SummaryTick == \E d \in SummaryTickSteps : Tick(d)

InitSummary == InitService /\ rx = IdleFrame

NextSummary ==
    \/ SummaryTick
    \/ \E u \in StateUsers :
          \/ GetOrCreateStateCall(u)
          \/ RegenStart(u)
    \/ \E parses \in BOOLEAN : RegenAnalysisReturns(parses)
    \/ RegenPrimaryFails
    \/ \E lines \in SummaryResponses :
          \/ RegenCondensationReturns(lines)
          \/ RegenFallbackReturns(lines)
    \/ RegenFallbackFails

SpecSummary == InitSummary /\ [][NextSummary]_vars

\* C22: a regeneration whose analysis or condensation call failed has made
\* exactly one fallback call (and one that did not fail has made none); when
\* the fallback answered, its summary and its first MAX_KEY_POINTS key points
\* at most are what is stored; when it failed too, summary, key points and
\* lastAnalysis are what they were when the regeneration started.
C22_FallbackOnce ==
    regen.pc = "done" =>
        LET ctx == conversationStates[regen.user].openAIContext
            parsed == ParseSummary(regen.response)
        IN  /\ regen.calls.fallback = IF regen.path = "primary" THEN 0 ELSE 1
            /\ regen.calls.analysis = 1
            /\ regen.calls.condensation <= 1
            /\ regen.path = "fallback" =>
                  /\ ctx.summary = parsed.summary
                  /\ Len(ctx.keyPoints) <= MAX_KEY_POINTS
                  /\ ctx.keyPoints = SliceFirst(parsed.keyPoints, MAX_KEY_POINTS)
            /\ regen.path = "failed" =>
                  /\ ctx.summary = regen.before.summary
                  /\ ctx.keyPoints = regen.before.keyPoints
                  /\ ctx.lastAnalysis = regen.before.lastAnalysis

\* a regeneration whose condensation call and fallback call both failed left
\* the summary, key points and analysis stored by an earlier regeneration
C22_Witness ==
    /\ regen.pc = "done"
    /\ regen.path = "failed"
    /\ regen.calls = [analysis |-> 1, condensation |-> 1, fallback |-> 1]
    /\ regen.before.summary = S1
    /\ conversationStates[regen.user].openAIContext.summary = S1
    /\ conversationStates[regen.user].openAIContext.keyPoints = <<K(1)>>
    /\ conversationStates[regen.user].openAIContext.lastAnalysis # NoAnalysis

-----------------------------------------------------------------------------
(* SpecOpt: optimizeOpenAIContext on histories of messages of several sizes *)

OptUsers == {"u1"}

\* an answer of 3000 estimated tokens and one of 9000
AsstMid == Msg("assistant", Text("a-mid", 12000))

AsstHuge == Msg("assistant", Text("a-huge", 36000))

\* an entry of role system, as ChatMessage allows in a history
SysNote == Msg("system", Text("sys-note", 200))

OptMessages == {AsstMid, AsstHuge, SysNote}

OptHistories ==
    UNION {[1..n -> OptMessages] : n \in 1..MaxOptHistory}

OptOutcomes == {[path |-> "fallback", lines |-> <<S1, K(1)>>]}

OptTickSteps == {OPENAI_CONTEXT_EXPIRY_MS + 1}

OptTick == \E d \in OptTickSteps : Tick(d)

InitOpt == InitService /\ rx = IdleFrame

NextOpt ==
    \/ OptTick
    \/ \E u \in OptUsers :
          \/ \E h \in OptHistories : UpdateConversationHistoryCall(u, h)
          \/ \E o \in OptOutcomes : OptimizeCall(u, o)

SpecOpt == InitOpt /\ [][NextOpt]_vars

-----------------------------------------------------------------------------
(* SpecMerge: updateState with partial updates of every shape, each call    *)
(* recorded with the updates it was given                                   *)

MergeUsers == {"u1"}

MergePartials ==
    {Partial({}, <<>>, <<>>, EmptyText, NoCase, FALSE),
     Partial({"history", "previousQuestions"}, LongHistory, LongQuestions,
             EmptyText, NoCase, FALSE),
     Partial({"history"}, <<UserQ>>, <<>>, EmptyText, NoCase, FALSE),
     Partial({"currentCase", "lastResponse"}, <<>>, <<>>, A1, "case1", FALSE),
     Partial({"lastResponse"}, <<>>, <<>>, EmptyText, NoCase, FALSE),
     Partial({"isFollowUpQuestion"}, <<>>, <<>>, EmptyText, NoCase, TRUE),
     Partial({"isFollowUpQuestion"}, <<>>, <<>>, EmptyText, NoCase, FALSE)}

MergeTickSteps == {1}

MergeTick == \E d \in MergeTickSteps : Tick(d)

\* updateState(userId, updates), remembered with its updates
UpdateStateWith(u, updates) ==
    /\ conversationStates' =
           UpdateState(conversationStates, u, updates, now,
                       FreshOid(conversationStates, u))
    /\ Called("updateState", u, updates)
    /\ UNCHANGED <<now, requestCounts, activeRequests, rx, ticks, req, gate, search, admitted, regen,
                   conversationContexts, answer>>

InitMerge == InitService /\ rx = IdleFrame

NextMerge ==
    \/ MergeTick
    \/ \E u \in MergeUsers :
          \/ \E p \in MergePartials : UpdateStateWith(u, p)
          \/ ClearConversationCall(u)

SpecMerge == InitMerge /\ [][NextMerge]_vars

\* C29: after updateState(id, partial) on a stored state every field the
\* partial provides holds the provided value (history and previousQuestions
\* their last MAX_HISTORY_LENGTH entries), every other field of the exchange
\* is as before, and timestamp is the time of the call.
C29_Merge ==
    [][\A u \in MergeUsers :
          (CallStep("updateState", u) /\ u \in DOMAIN conversationStates) =>
              LET p == last'.result
                  old == conversationStates[u]
                  new == conversationStates'[u]
              IN  /\ new.history = IF "history" \in p.has
                                   THEN SliceLast(p.history, MAX_HISTORY_LENGTH)
                                   ELSE old.history
                  /\ new.previousQuestions
                        = IF "previousQuestions" \in p.has
                          THEN SliceLast(p.previousQuestions, MAX_HISTORY_LENGTH)
                          ELSE old.previousQuestions
                  /\ new.lastResponse = IF "lastResponse" \in p.has
                                        THEN p.lastResponse ELSE old.lastResponse
                  /\ new.currentCase = IF "currentCase" \in p.has
                                       THEN p.currentCase ELSE old.currentCase
                  /\ new.isFollowUpQuestion
                        = IF "isFollowUpQuestion" \in p.has
                          THEN p.isFollowUpQuestion ELSE old.isFollowUpQuestion
                  /\ new.openAIContext = old.openAIContext
                  /\ new.timestamp = now]_vars

-----------------------------------------------------------------------------
(* SpecTtl: optimizeOpenAIContext around the expiry of the cached context,  *)
(* on histories longer than the three entries a reseeding keeps             *)

TtlUsers == {"u1"}

UserMsg(i) == Msg("user", Text("m" \o ToString(i), 40))

TtlHistories ==
    {<<UserMsg(1)>>,
     <<UserMsg(1), UserMsg(2), UserMsg(3), UserMsg(4)>>,
     <<SysNote, UserMsg(1)>>}

TtlPartials ==
    {Partial({"history", "previousQuestions"}, h, <<Q1>>, EmptyText, NoCase, FALSE) :
        h \in TtlHistories}

TtlTickSteps == {1, OPENAI_CONTEXT_EXPIRY_MS}

TtlTick == \E d \in TtlTickSteps : Tick(d)

InitTtl == InitService /\ rx = IdleFrame

NextTtl ==
    \/ TtlTick
    \/ \E u \in TtlUsers :
          \/ \E p \in TtlPartials : UpdateStateCall(u, p)
          \/ \E o \in OptOutcomes : OptimizeCall(u, o)

SpecTtl == InitTtl /\ [][NextTtl]_vars

IsPrefix(a, b) == Len(a) <= Len(b) /\ SubSeq(b, 1, Len(a)) = a

\* C21: optimizeOpenAIContext builds its list on the cached list exactly when
\* now - lastUpdateTime <= OPENAI_CONTEXT_EXPIRY_MS and otherwise on the last
\* three history entries (in both cases with the system instruction put in
\* front when the list holds no system message); whether or not the context
\* had expired, history and previousQuestions are left as they were.
C21_ContextTtl ==
    [][\A u \in TtlUsers :
          CallStep("optimize", u) =>
              LET st == conversationStates[u]
                  fresh == now - st.openAIContext.lastUpdateTime
                              <= OPENAI_CONTEXT_EXPIRY_MS
                  seed == IF fresh THEN st.openAIContext.messages
                          ELSE SliceLast(st.history, 3)
                  start == IF \E i \in DOMAIN seed : seed[i].role = "system"
                           THEN seed ELSE <<SystemMessage>> \o seed
                  result == conversationStates'[u].openAIContext.messages
              IN  /\ ~last'.result => IsPrefix(start, result)
                  /\ conversationStates'[u].history = st.history
                  /\ conversationStates'[u].previousQuestions = st.previousQuestions]_vars

\* an optimize found the cached list expired and rebuilt it on the last three
\* of four history entries; the oldest entry follows them, and the history
\* and previousQuestions are still there
C21_Witness ==
    /\ last.op = "optimize"
    /\ "u1" \in DOMAIN conversationStates
    /\ conversationStates["u1"].history
          = <<UserMsg(1), UserMsg(2), UserMsg(3), UserMsg(4)>>
    /\ conversationStates["u1"].previousQuestions = <<Q1>>
    /\ conversationStates["u1"].openAIContext.messages
          = <<SystemMessage, UserMsg(2), UserMsg(3), UserMsg(4), UserMsg(1)>>
    /\ conversationStates["u1"].openAIContext.lastUpdateTime = now
    /\ now > OPENAI_CONTEXT_EXPIRY_MS

Count(seq, x) == Cardinality({i \in DOMAIN seq : seq[i] = x})

\* the two lists hold the same entries the same number of times
SameEntries(a, b) ==
    /\ Len(a) = Len(b)
    /\ \A i \in DOMAIN a : Count(a, a[i]) = Count(b, a[i])

\* the k most recent entries of history h, with the system message sys, fit
\* the budget and one more entry would not
MaximalSuffix(sys, h, k) ==
    /\ EstimateTokenCount(<<sys>> \o SliceLast(h, k)) <= MAX_TOTAL_TOKENS
    /\ \/ k = Len(h)
       \/ EstimateTokenCount(<<sys>> \o SliceLast(h, k + 1)) > MAX_TOTAL_TOKENS

C19_LeadingSystemInstruction ==
    [][\A u \in OptUsers :
          CallStep("optimize", u) =>
              LET result == conversationStates'[u].openAIContext.messages
              IN  /\ result # <<>>
                  /\ result[1] = SystemMessage
                  /\ Count(result, SystemMessage) = 1]_vars

\* the entries of seq at the indices in keep, in the order of seq
RECURSIVE Pick(_, _, _)
Pick(seq, keep, i) ==
    IF i > Len(seq) THEN <<>>
    ELSE IF i \in keep THEN <<seq[i]>> \o Pick(seq, keep, i + 1)
    ELSE Pick(seq, keep, i + 1)

\* the recent entries whose content is that of no message of the list and of
\* no earlier recent entry
NewEntries(messages, recent) ==
    Pick(recent,
         {i \in DOMAIN recent :
             /\ recent[i].content \notin Contents(messages)
             /\ \A j \in 1..(i - 1) : recent[j].content # recent[i].content},
         1)

\* C20: when the candidate list is within the budget, the list optimize returns
\* is the starting list (the cached messages, or the last three history entries
\* after expiry, led by the system instruction when no system entry is there),
\* then the summary message if the summary is non-empty, then the key-points
\* message if there are key points, then every one of the most recent
\* MAX_HISTORY_LENGTH history entries whose content is that of no message
\* already in the list, once each and in history order.
C20_AppendOrder ==
    [][\A u \in OptUsers :
          (CallStep("optimize", u) /\ ~last'.result) =>
              LET st == conversationStates[u]
                  expired == now - st.openAIContext.lastUpdateTime
                                > OPENAI_CONTEXT_EXPIRY_MS
                  kept == IF expired THEN SliceLast(st.history, 3)
                          ELSE st.openAIContext.messages
                  start == IF \E i \in DOMAIN kept : kept[i].role = "system"
                           THEN kept ELSE <<SystemMessage>> \o kept
                  summary == IF expired THEN EmptyText ELSE st.openAIContext.summary
                  keyPoints == IF expired THEN <<>> ELSE st.openAIContext.keyPoints
                  prefix == start
                            \o (IF summary.len > 0
                                THEN <<SummaryMessage(summary)>> ELSE <<>>)
                            \o (IF keyPoints # <<>>
                                THEN <<KeyPointsMessage(keyPoints)>> ELSE <<>>)
                  recent == SliceLast(st.history, MAX_HISTORY_LENGTH)
              IN  conversationStates'[u].openAIContext.messages
                     = prefix \o NewEntries(prefix, recent)]_vars

\* a within-budget optimize added the summary message, the key-points message
\* and one of two history entries of the same content
C20_Witness ==
    /\ last.op = "optimize"
    /\ ~last.result
    /\ "u1" \in DOMAIN conversationStates
    /\ conversationStates["u1"].history = <<AsstMid, AsstMid>>
    /\ conversationStates["u1"].openAIContext.messages
          = <<SystemMessage, SummaryMessage(S1), KeyPointsMessage(<<K(1)>>), AsstMid>>

-----------------------------------------------------------------------------
(* SpecGate: admission of handleChat calls made by users of their own.     *)
(* Every call carries a valid question, so only the rate limiter and the   *)
(* concurrency check decide; the calls are told apart by position only.    *)

\* the user of the k-th call to reach validateRequest
GateUser(k) == "g" \o ToString(k)

\* handleChat is called: cleanupRateLimits runs, the await suspends the call
GateStart ==
    /\ gate.calls < MaxCalls
    /\ requestCounts' = CleanupRateLimits(requestCounts, now)
    /\ gate' = [gate EXCEPT !.calls = @ + 1, !.cleaned = @ + 1]
    /\ UNCHANGED <<now, conversationStates, activeRequests, rx, last, ticks, req, search, admitted, regen,
                   conversationContexts, answer>>

\* validateRequest runs: checkRateLimit, then the read of activeRequests;
\* the await of its result suspends the call once more
GateValidate ==
    /\ gate.cleaned > 0
    /\ LET u == GateUser(gate.calls - gate.cleaned + 1)
           rl == CheckRateLimit(requestCounts, u, now)
           valid == /\ rl.ok
                    /\ ~(activeRequests >= rateLimitConfig.maxConcurrentRequests)
       IN  /\ requestCounts' = rl.counts
           /\ gate' = IF valid
                      THEN [gate EXCEPT !.cleaned = @ - 1, !.admitted = @ + 1]
                      ELSE [gate EXCEPT !.cleaned = @ - 1, !.refused = @ + 1]
    /\ UNCHANGED <<now, conversationStates, activeRequests, rx, last, ticks, req, search, admitted, regen,
                   conversationContexts, answer>>

\* if (!validation.isValid) is false: this.activeRequests++ and the pipeline starts
GateEnter ==
    /\ gate.admitted > 0
    /\ activeRequests' = activeRequests + 1
    /\ gate' = [gate EXCEPT !.admitted = @ - 1, !.running = @ + 1]
    /\ UNCHANGED <<now, conversationStates, requestCounts, rx, last, ticks, req, search, admitted, regen,
                   conversationContexts, answer>>

\* if (!validation.isValid) throw
GateReject ==
    /\ gate.refused > 0
    /\ gate' = [gate EXCEPT !.refused = @ - 1]
    /\ UNCHANGED <<now, conversationStates, requestCounts, activeRequests, rx,
                   last, ticks, req, search, admitted, regen,
                   conversationContexts, answer>>

\* the pipeline returns or raises: finally { this.activeRequests-- }
GateExit ==
    /\ gate.running > 0
    /\ activeRequests' = activeRequests - 1
    /\ gate' = [gate EXCEPT !.running = @ - 1]
    /\ UNCHANGED <<now, conversationStates, requestCounts, rx, last, ticks, req, search, admitted, regen,
                   conversationContexts, answer>>

InitGate == InitService /\ rx = IdleFrame

NextGate == GateStart \/ GateValidate \/ GateEnter \/ GateReject \/ GateExit

SpecGate == InitGate /\ [][NextGate]_vars

\* C3: the number of requests inside the pipeline never exceeds
\* maxConcurrentRequests, however concurrently started calls interleave.
C3_ConcurrencyCap == activeRequests <= rateLimitConfig.maxConcurrentRequests

-----------------------------------------------------------------------------
(* handleChat as a process: one action per stretch of code between awaits  *)

Max(a, b) == IF a >= b THEN a ELSE b

QSpaces == Text("   ", 3)

QLong == Text("q-long", MAX_QUESTION_LENGTH + 1)

QScript == Text("<script>alert(1)</script>", 25)

\* question.trim(), on the questions of the model
Trim(q) == IF q.text \in {"", "   "} THEN EmptyText ELSE q

\* containsMaliciousContent: one of the patterns occurs in the text
ContainsMaliciousContent(q) == q.text \in {"<script>alert(1)</script>"}

\* mutant: the emptiness test is made on the question as it came
ValidationErrors_NoTrim(q, rateOk, active) ==
    (IF rateOk THEN {} ELSE {"rate"})
    \cup (IF active >= rateLimitConfig.maxConcurrentRequests THEN {"concurrent"} ELSE {})
    \cup (IF q.len > MAX_QUESTION_LENGTH THEN {"long"} ELSE {})
    \cup (IF ~Truthy(q) THEN {"empty"} ELSE {})
    \cup (IF ContainsMaliciousContent(q) THEN {"malicious"} ELSE {})

\* the errors validateRequest collects, given what checkRateLimit returned
\* and the value of activeRequests it read
ValidationErrors(q, rateOk, active) ==
    (IF rateOk THEN {} ELSE {"rate"})
    \cup (IF active >= rateLimitConfig.maxConcurrentRequests THEN {"concurrent"} ELSE {})
    \cup (IF q.len > MAX_QUESTION_LENGTH THEN {"long"} ELSE {})
    \cup (IF ~Truthy(Trim(q)) THEN {"empty"} ELSE {})
    \cup (IF ContainsMaliciousContent(q) THEN {"malicious"} ELSE {})

\* the positions of an invocation inside the operation handed to retryWithBackoff
InPipeline == {"optSummary", "rag", "backoff", "turnSummary"}

\* an invocation that has returned or raised
Finished(r0, outcome) ==
    [IdleReq EXCEPT !.pc = "done", !.user = r0.user, !.errors = r0.errors,
                    !.retry = r0.retry, !.outcome = outcome]

\* the state object the invocation holds is still the one stored for its user
Attached(r0) ==
    /\ r0.user \in DOMAIN conversationStates
    /\ conversationStates[r0.user].oid = r0.state

\* the operation from its start to its first await, at time t: getOrCreateState,
\* updateState with the question appended, optimizeOpenAIContext up to the
\* summary regeneration of its over-budget branch or, without it, to its end
OperationBegin(r0, t) ==
    LET u == r0.user
        oid == FreshOid(conversationStates, u)
        s1 == GetOrCreateState(conversationStates, u, t, oid)
        state == s1[u]
        updatedHistory == Append(state.history, Msg("user", r0.question))
        s2 == UpdateState(s1, u,
                  Partial({"history", "previousQuestions"}, updatedHistory,
                          Append(state.previousQuestions, r0.question),
                          EmptyText, NoCase, FALSE),
                  t, oid)
        b == OptimizeBuild(s2[u], t)
    IN  IF b.over
        THEN [states |-> Put(s2, u, b.state),
              req |-> [r0 EXCEPT !.pc = "optSummary", !.state = state.oid,
                                 !.updatedHistory = updatedHistory,
                                 !.messages = b.messages, !.optNow = t]]
        ELSE [states |-> Put(s2, u, OptimizeCommit(b.state, b.messages, t)),
              req |-> [r0 EXCEPT !.pc = "rag", !.state = state.oid,
                                 !.updatedHistory = updatedHistory,
                                 !.messages = <<>>, !.optNow = t]]

\* handleChat(u, q) is called: await this.cleanupRateLimits()
ChatStart(r, u, q) ==
    /\ req[r].pc = "idle"
    /\ requestCounts' = CleanupRateLimits(requestCounts, now)
    /\ req' = [req EXCEPT ![r] = [@ EXCEPT !.pc = "cleaned", !.user = u,
                                           !.question = q]]
    /\ UNCHANGED <<now, conversationStates, activeRequests, rx, last, ticks, gate, search, admitted, regen,
                   conversationContexts, answer>>

\* await this.validateRequest(userId, question)
ChatValidate(r) ==
    /\ req[r].pc = "cleaned"
    /\ LET rl == CheckRateLimit(requestCounts, req[r].user, now)
       IN  /\ requestCounts' = rl.counts
           /\ req' = [req EXCEPT ![r] =
                        [@ EXCEPT !.pc = "validated",
                                  !.errors = ValidationErrors(req[r].question, rl.ok,
                                                              activeRequests)]]
    /\ UNCHANGED <<now, conversationStates, activeRequests, rx, last, ticks, gate, search, admitted, regen,
                   conversationContexts, answer>>

\* if (!validation.isValid) throw ...
ChatReject(r) ==
    /\ req[r].pc = "validated"
    /\ req[r].errors # {}
    /\ req' = [req EXCEPT ![r] = Finished(req[r], "rejected")]
    /\ UNCHANGED <<now, conversationStates, requestCounts, activeRequests, rx,
                   last, ticks, gate, search, admitted, regen,
                   conversationContexts, answer>>

\* this.activeRequests++, retryWithBackoff enters its loop, first attempt begins
ChatEnter(r) ==
    /\ req[r].pc = "validated"
    /\ req[r].errors = {}
    /\ activeRequests' = activeRequests + 1
    /\ LET f == RetryEnterLoop(RetryFrame("chat", ChatPolicy))
           b == OperationBegin([req[r] EXCEPT !.retry = f], now)
       IN  /\ conversationStates' = b.states
           /\ req' = [req EXCEPT ![r] = b.req]
    /\ UNCHANGED <<now, requestCounts, rx, last, ticks, gate, search, admitted, regen,
                   conversationContexts, answer>>

\* the summary regeneration inside optimizeOpenAIContext is over: the summary
\* and the context are written to the state object the invocation holds
ChatOptSummaryDone(r, outcome) ==
    /\ req[r].pc = "optSummary"
    /\ conversationStates' =
           IF Attached(req[r])
           THEN Put(conversationStates, req[r].user,
                    OptimizeCommit(
                        UpdateConversationSummary(conversationStates[req[r].user],
                                                  outcome, now),
                        req[r].messages, req[r].optNow))
           ELSE conversationStates
    /\ req' = [req EXCEPT ![r] = [@ EXCEPT !.pc = "rag", !.messages = <<>>]]
    /\ UNCHANGED <<now, requestCounts, activeRequests, rx, last, ticks, gate, search, admitted, regen,
                   conversationContexts, answer>>

\* handleRagQuestion resolves: updateState with the final history
ChatRagSucceeds(r, response) ==
    /\ req[r].pc = "rag"
    /\ conversationStates' =
           UpdateState(conversationStates, req[r].user,
               Partial({"history", "lastResponse"},
                       Append(req[r].updatedHistory, Msg("assistant", response)),
                       <<>>, response, NoCase, FALSE),
               now, FreshOid(conversationStates, req[r].user))
    /\ req' = [req EXCEPT ![r] = [@ EXCEPT !.pc = "turnSummary",
                                           !.response = response]]
    /\ UNCHANGED <<now, requestCounts, activeRequests, rx, last, ticks, gate, search, admitted, regen,
                   conversationContexts, answer>>

\* handleRagQuestion rejects: the catch of retryWithBackoff; after the last
\* attempt the error leaves handleChat through finally { activeRequests-- }
ChatRagFails(r) ==
    /\ req[r].pc = "rag"
    /\ LET f == RetryOnFailure(req[r].retry, req[r].retry.calls)
       IN  IF f.pc = "raised"
           THEN /\ activeRequests' = activeRequests - 1
                /\ req' = [req EXCEPT ![r] =
                             Finished([req[r] EXCEPT !.retry = f], "failed")]
           ELSE /\ activeRequests' = activeRequests
                /\ req' = [req EXCEPT ![r] =
                             [@ EXCEPT !.pc = "backoff", !.retry = f,
                                       !.wakeAt = now + f.waits[Len(f.waits)]]]
    /\ UNCHANGED <<now, conversationStates, requestCounts, rx, last, ticks, gate, search, admitted, regen,
                   conversationContexts, answer>>

\* the backoff timer fires, not before its delay has passed: next attempt
ChatWake(r) ==
    /\ req[r].pc = "backoff"
    /\ LET t == Max(now, req[r].wakeAt)
           f == RetryOnWake(req[r].retry)
           b == OperationBegin([req[r] EXCEPT !.retry = f, !.wakeAt = 0], t)
       IN  /\ now' = t
           /\ conversationStates' = b.states
           /\ req' = [req EXCEPT ![r] = b.req]
    /\ UNCHANGED <<requestCounts, activeRequests, rx, last, ticks, gate, search, admitted, regen,
                   conversationContexts, answer>>

\* mutant: a regeneration that failed altogether rejects, and the rejection
\* reaches the catch of retryWithBackoff as the last failure
TurnSummaryEnd_Raises(r0, outcome) ==
    IF outcome.path = "failed"
    THEN Finished([r0 EXCEPT !.retry.pc = "raised", !.retry.fails = @ + 1], "failed")
    ELSE Finished([r0 EXCEPT !.retry = RetryOnSuccess(@, SuccessValue)], "ok")

\* await this.updateConversationSummary(state, finalHistory) resumes, however
\* the regeneration ended: return response
TurnSummaryEnd(r0, outcome) ==
    Finished([r0 EXCEPT !.retry = RetryOnSuccess(@, SuccessValue)], "ok")

\* the closing updateConversationSummary is over: return response, finally
ChatTurnSummaryDone(r, outcome) ==
    /\ req[r].pc = "turnSummary"
    /\ conversationStates' =
           IF Attached(req[r])
           THEN Put(conversationStates, req[r].user,
                    UpdateConversationSummary(conversationStates[req[r].user],
                                              outcome, now))
           ELSE conversationStates
    /\ activeRequests' = activeRequests - 1
    /\ req' = [req EXCEPT ![r] = TurnSummaryEnd(req[r], outcome)]
    /\ UNCHANGED <<now, requestCounts, rx, last, ticks, gate, search, admitted, regen,
                   conversationContexts, answer>>

-----------------------------------------------------------------------------
(* SpecChat: two handleChat invocations for one user, interleaved at their *)
(* awaits, with time passing.  The service is taken either fresh, or with  *)
(* the user's rate window full, or with maxConcurrentRequests invocations  *)
(* of other users inside the pipeline, where they stay; the conversation   *)
(* states of those users are not followed.                                 *)

ChatUsers == {"u1"}

ChatQuestions == {Q1, EmptyText, QSpaces, QLong, QScript}

ChatResponses == {A1, AsstHuge.content}

ChatOutcomes == {[path |-> "primary", lines |-> <<S1, K(1)>>]}

ChatTickSteps == {RATE_WINDOW_MS + 1}

ChatLoads ==
    {[counts |-> << >>, running |-> 0],
     [counts |-> Put(<< >>, "u1",
                     [count |-> rateLimitConfig.maxRequestsPerMinute, timestamp |-> 0]),
      running |-> 0],
     [counts |-> << >>, running |-> rateLimitConfig.maxConcurrentRequests]}

ChatTick == \E d \in ChatTickSteps : Tick(d)

InitChat ==
    /\ now = 0
    /\ conversationStates = << >>
    /\ \E l \in ChatLoads :
          /\ requestCounts = l.counts
          /\ activeRequests = l.running
          /\ gate = [IdleGate EXCEPT !.calls = l.running, !.running = l.running]
    /\ last = NoCall
    /\ ticks = 0
    /\ req = [r \in Reqs |-> IdleReq]
    /\ rx = IdleFrame
    /\ search = IdleSearch
    /\ admitted = << >>
    /\ regen = IdleRegen
    /\ conversationContexts = << >>
    /\ answer = IdleAnswer

NextChat ==
    \/ ChatTick
    \/ \E r \in Reqs :
          \/ \E u \in ChatUsers, q \in ChatQuestions : ChatStart(r, u, q)
          \/ ChatValidate(r)
          \/ ChatReject(r)
          \/ ChatEnter(r)
          \/ \E o \in ChatOutcomes : ChatOptSummaryDone(r, o)
          \/ \E a \in ChatResponses : ChatRagSucceeds(r, a)
          \/ ChatRagFails(r)
          \/ ChatWake(r)
          \/ \E o \in ChatOutcomes : ChatTurnSummaryDone(r, o)

SpecChat == InitChat /\ [][NextChat]_vars

-----------------------------------------------------------------------------
(* SpecTurn: handleChat invocations of one user on a fresh service, with    *)
(* summary regenerations that succeed or fail altogether                   *)

TurnQuestions == {Q1, QSpaces}

TurnOutcomes ==
    {[path |-> "primary", lines |-> <<S1, K(1)>>], [path |-> "failed", lines |-> <<>>]}

\* an answer of 9000 estimated tokens, over the budget of a later optimize
TurnResponses == {AsstHuge.content}

InitTurn == InitService /\ rx = IdleFrame

NextTurn ==
    \/ ChatTick
    \/ \E r \in Reqs :
          \/ \E u \in ChatUsers, q \in TurnQuestions : ChatStart(r, u, q)
          \/ ChatValidate(r)
          \/ ChatReject(r)
          \/ ChatEnter(r)
          \/ \E o \in TurnOutcomes : ChatOptSummaryDone(r, o)
          \/ \E a \in TurnResponses : ChatRagSucceeds(r, a)
          \/ ChatRagFails(r)
          \/ ChatWake(r)
          \/ \E o \in TurnOutcomes : ChatTurnSummaryDone(r, o)

SpecTurn == InitTurn /\ [][NextTurn]_vars

-----------------------------------------------------------------------------
(* Claims on the stored lists and on handleChat *)

\* C1: for every conversation id, whatever operations were applied, the
\* stored history and the stored previousQuestions have at most
\* MAX_HISTORY_LENGTH entries.
C1_BoundedLists ==
    \A u \in DOMAIN conversationStates :
        /\ Len(conversationStates[u].history) <= MAX_HISTORY_LENGTH
        /\ Len(conversationStates[u].previousQuestions) <= MAX_HISTORY_LENGTH

\* updateState was handed longer lists and both are stored at the limit
C1_Witness ==
    /\ last.op = "updateState"
    /\ "u1" \in DOMAIN conversationStates
    /\ Len(conversationStates["u1"].history) = MAX_HISTORY_LENGTH
    /\ Len(conversationStates["u1"].previousQuestions) = MAX_HISTORY_LENGTH
    /\ MaxInputLength > MAX_HISTORY_LENGTH

\* an invocation whose validateRequest found no error and that has neither
\* returned nor raised
PassedValidation(r) ==
    \/ req[r].pc = "validated" /\ req[r].errors = {}
    \/ req[r].pc \in InPipeline

\* C4: activeRequests equals the number of handleChat invocations that have
\* passed validation and have not yet returned or raised.
C4_CountsAdmitted ==
    activeRequests = gate.running + Cardinality({r \in Reqs : PassedValidation(r)})

\* C5: for every conversation id, at most one handleChat invocation is between
\* its first read and its last write of that conversation's state.
C5_OneTurnPerConversation ==
    \A u \in ChatUsers :
        Cardinality({r \in Reqs : req[r].user = u /\ req[r].pc \in InPipeline}) <= 1

\* a reason for validateRequest to reject, read off the question, the user's
\* rate record and the counter before the call
RejectionReason(r) ==
    LET q == req[r].question
        u == req[r].user
    IN  \/ q.text \in {"", "   "}
        \/ q.len > MAX_QUESTION_LENGTH
        \/ q = QScript
        \/ /\ InWindow(u)
           /\ requestCounts[u].count >= rateLimitConfig.maxRequestsPerMinute
        \/ activeRequests >= rateLimitConfig.maxConcurrentRequests

\* C8: an invocation with an empty or whitespace-only question, a question of
\* more than 1000 characters, a malicious pattern, an exhausted rate window or
\* a full concurrency counter is found invalid; an invocation found invalid
\* raises at its next step, with the operation never invoked and no backoff
\* wait; and none of its steps changes a conversation state or activeRequests.
C8_RejectedAtAdmission ==
    [][\A r \in Reqs :
          /\ (req[r].pc = "cleaned" /\ req'[r].pc = "validated" /\ RejectionReason(r))
                => req'[r].errors # {}
          /\ (req[r].pc = "validated" /\ req[r].errors # {} /\ req'[r] # req[r])
                => /\ req'[r].pc = "done"
                   /\ req'[r].outcome = "rejected"
                   /\ req'[r].retry.calls = 0
                   /\ req'[r].retry.waits = <<>>
                   /\ now' = now
          /\ (req'[r] # req[r] /\ (req'[r].errors # {} \/ req'[r].pc = "cleaned"))
                => /\ conversationStates' = conversationStates
                   /\ activeRequests' = activeRequests]_vars

\* a whitespace-only question was rejected while the other invocation of the
\* same user, admitted, had stored its question
C8_Witness ==
    /\ req["r1"].outcome = "rejected"
    /\ req["r1"].errors = {"empty"}
    /\ req["r1"].retry.calls = 0
    /\ req["r2"].pc = "rag"
    /\ activeRequests = 1
    /\ Len(conversationStates["u1"].history) = 1

-----------------------------------------------------------------------------
(* Document retrieval (retrievalService.ts).  A document is a hit of the   *)
(* vector store: the caseId, type and chunkIndex of its payload and the    *)
(* length of its pageContent.  The payloads carry no caseNumber, court,    *)
(* decisionDate, judge or url, so every header field is printed as 'N/A'.  *)
(* A formatted context is the sequence of its case blocks, each with the   *)
(* documents whose text it holds in the order of the text, and its length  *)
(* in characters.                                                          *)

Cases == {"A", "B"}

\* the caseId of a payload that has none
NoCaseId == "undefined"

\* a summary of case c; its payload has no chunkIndex (chunkIndex || 0 is 0)
SummaryDoc(c) ==
    [caseId |-> c, type |-> "Zhrnutie", chunkIndex |-> 0, len |-> SummaryChars]

\* content chunk i of case c
ContentDoc(c, i) ==
    [caseId |-> c, type |-> "content", chunkIndex |-> i, len |-> ChunkChars]

\* the callers of searchRelevantDocuments
Callers ==
    {"handleRagQuestion", "getSpecificDocument", "handleLegalAnalysis",
     "explainDocument", "compareLaws", "handleHypothetical", "summarizeDocument"}

\* the callers with `if (!searchResults.length) throw NO_RELEVANT_DOCS`
ChecksEmpty(caller) == caller \in {"handleRagQuestion", "getSpecificDocument"}

Take(seq, n) == SubSeq(seq, 1, Min(n, Len(seq)))

\* index of the first occurrence of x in seq, 0 when there is none
Position(seq, x) ==
    IF \E i \in DOMAIN seq : seq[i] = x
    THEN CHOOSE i \in DOMAIN seq : seq[i] = x /\ \A j \in 1..(i - 1) : seq[j] # x
    ELSE 0

\* hits.forEach(doc => { if (doc.metadata.caseId) caseIds.add(caseId) })
RECURSIVE AddCaseIds(_, _)
AddCaseIds(caseIds, hits) ==
    IF hits = <<>> THEN caseIds
    ELSE IF Head(hits).caseId = NoCaseId \/ Position(caseIds, Head(hits).caseId) > 0
    THEN AddCaseIds(caseIds, Tail(hits))
    ELSE AddCaseIds(Append(caseIds, Head(hits).caseId), Tail(hits))

\* hits.forEach(doc => { if (doc.metadata.caseId) summaryMap.set(caseId, doc) })
RECURSIVE SetSummaries(_, _)
SetSummaries(summaryMap, hits) ==
    IF hits = <<>> THEN summaryMap
    ELSE IF Head(hits).caseId = NoCaseId
    THEN SetSummaries(summaryMap, Tail(hits))
    ELSE SetSummaries(Put(summaryMap, Head(hits).caseId, Head(hits)), Tail(hits))

\* docs with d put behind every entry whose chunkIndex is not larger
InsertByChunkIndex(docs, d) ==
    LET before == {i \in DOMAIN docs : docs[i].chunkIndex <= d.chunkIndex}
        k == Cardinality(before)
    IN  SubSeq(docs, 1, k) \o <<d>> \o SubSeq(docs, k + 1, Len(docs))

\* mutant: the documents are left in the order they came in
SortByChunkIndex_Unsorted(docs) == docs

\* docs.sort((a, b) => (a.chunkIndex || 0) - (b.chunkIndex || 0)), a stable sort
RECURSIVE SortByChunkIndex(_)
SortByChunkIndex(docs) ==
    IF docs = <<>> THEN <<>>
    ELSE InsertByChunkIndex(SortByChunkIndex(SubSeq(docs, 1, Len(docs) - 1)),
                            docs[Len(docs)])

\* chunkResults.forEach: summaries.push(summaryMap.get(caseId)) where there is one
RECURSIVE CollectSummaries(_, _)
CollectSummaries(caseIds, summaryMap) ==
    IF caseIds = <<>> THEN <<>>
    ELSE (IF Head(caseIds) \in DOMAIN summaryMap
          THEN <<summaryMap[Head(caseIds)]>> ELSE <<>>)
         \o CollectSummaries(Tail(caseIds), summaryMap)

\* chunkResults.forEach: allDocs.push(...chunks)
RECURSIVE CollectChunks(_, _)
CollectChunks(caseIds, fetch) ==
    IF caseIds = <<>> THEN <<>>
    ELSE fetch[Head(caseIds)].chunks \o CollectChunks(Tail(caseIds), fetch)

\* searchRelevantDocuments after Promise.all: the summaries, then all chunks
\* sorted by chunkIndex, cut to the first MAX_SEARCH_RESULTS
CombineDocs(caseIds, summaryMap, fetch) ==
    Take(CollectSummaries(caseIds, summaryMap)
            \o SortByChunkIndex(CollectChunks(caseIds, fetch)),
         MAX_SEARCH_RESULTS)

\* result.metadata.caseId || 'unknown'
CaseKey(d) == IF d.caseId = NoCaseId THEN "unknown" ELSE d.caseId

\* the keys of the Map `cases`, in insertion order
RECURSIVE GroupKeys(_, _)
GroupKeys(keys, results) ==
    IF results = <<>> THEN keys
    ELSE IF Position(keys, CaseKey(Head(results))) > 0
    THEN GroupKeys(keys, Tail(results))
    ELSE GroupKeys(Append(keys, CaseKey(Head(results))), Tail(results))

\* the entries of docs of the given type, in their order
OfType(docs, type) ==
    LET Sel[i \in 0..Len(docs)] ==
            IF i = 0 THEN <<>>
            ELSE IF docs[i].type = type THEN Append(Sel[i - 1], docs[i])
            ELSE Sel[i - 1]
    IN  Sel[Len(docs)]

\* the entries of results grouped under key, in their order
OfCase(results, key) ==
    LET Sel[i \in 0..Len(results)] ==
            IF i = 0 THEN <<>>
            ELSE IF CaseKey(results[i]) = key THEN Append(Sel[i - 1], results[i])
            ELSE Sel[i - 1]
    IN  Sel[Len(results)]

\* docs.map(d => d.pageContent).join('\n\n').length
RECURSIVE JoinedChars(_)
JoinedChars(docs) ==
    IF docs = <<>> THEN 0
    ELSE IF Len(docs) = 1 THEN Head(docs).len
    ELSE Head(docs).len + 2 + JoinedChars(Tail(docs))

\* one case block: the header (61 characters with every field 'N/A'), the
\* section '\nZhrnutie:\n...\n' if there are summaries, the section
\* '\nObsah:\n...\n' if there are content chunks, and the score footer
FormatCase(key, results) ==
    LET caseResults == OfCase(results, key)
        summaries == OfType(caseResults, "Zhrnutie")
        contentChunks == SortByChunkIndex(OfType(caseResults, "content"))
    IN  [caseId |-> key,
         body |-> summaries \o contentChunks,
         len |-> 61
                 + (IF Len(summaries) > 0 THEN 11 + JoinedChars(summaries) + 1 ELSE 0)
                 + (IF Len(contentChunks) > 0
                    THEN 8 + JoinedChars(contentChunks) + 1 ELSE 0)
                 + 44]

\* formatSearchResults(results): the case blocks joined by '\n\n'
FormatSearchResults(results) ==
    LET keys == GroupKeys(<<>>, results)
        blocks == [i \in 1..Len(keys) |-> FormatCase(keys[i], results)]
    IN  [blocks |-> blocks, len |-> JoinedChars(blocks), marked |-> FALSE]

\* the marker truncateKnowledge appends, 14 characters ("... [skratene]"
\* with the diacritics of the source)
TruncationMarker == Text("... [skratene]", 14)

\* truncateKnowledge(knowledge); no caller of searchRelevantDocuments applies it
TruncateKnowledge(knowledge) ==
    IF knowledge.len > MAX_CHARS
    THEN [knowledge EXCEPT !.len = MAX_CHARS + TruncationMarker.len, !.marked = TRUE]
    ELSE knowledge

\* the object literal of getOrCreateContext
NewContext(t) ==
    [history |-> <<>>, previousDocuments |-> <<>>, previousDomain |-> EmptyText,
     previousQuery |-> EmptyText, timestamp |-> t]

\* getOrCreateContext(conversationId) at time t: the map afterwards
GetOrCreateContext(contexts, id, t) ==
    LET created == IF id \in DOMAIN contexts
                   THEN contexts
                   ELSE Put(contexts, id, NewContext(t))
    IN  IF t - created[id].timestamp > CONTEXT_EXPIRY_MS
        THEN Put(created, id, NewContext(t))
        ELSE created

\* mutant: the new documents are put in front of the cached ones
UpdateContext_KeepEarlier(contexts, id, docs, query, t) ==
    LET got == GetOrCreateContext(contexts, id, t)
    IN  Put(got, id, [got[id] EXCEPT
                        !.previousDocuments = docs \o @,
                        !.previousQuery = IF Truthy(query) THEN query ELSE @,
                        !.timestamp = t])

\* updateContext(conversationId, {previousDocuments, previousQuery}) at time t;
\* an array is truthy even when empty, an empty string is not
UpdateContext(contexts, id, docs, query, t) ==
    LET got == GetOrCreateContext(contexts, id, t)
    IN  Put(got, id, [got[id] EXCEPT
                        !.previousDocuments = docs,
                        !.previousQuery = IF Truthy(query) THEN query ELSE @,
                        !.timestamp = t])

\* searchQuery: the query alone, or the query and 'Context: ' with the first
\* QUERY_CONTEXT_CHARS characters of the first two cached documents joined
\* by '\n'
SearchQuery(q, previousDocuments) ==
    LET used == Take(previousDocuments, CACHED_DOCUMENTS)
        joined == IF Len(used) = 2 THEN used[1].len + 1 + used[2].len
                  ELSE IF Len(used) = 1 THEN used[1].len ELSE 0
    IN  [query |-> q, withContext |-> Len(previousDocuments) > 0, docs |-> used,
         chars |-> Min(joined, QUERY_CONTEXT_CHARS)]

\* a call safeSimilaritySearch(query, limit, filter): type and caseId are
\* what the filter matches on ("any", NoCaseId when it does not)
Issued(type, caseId, query, limit) ==
    [type |-> type, caseId |-> caseId, query |-> query, limit |-> limit]

\* the conversation of the single request of SpecSearch
SearchConversation == "u1"

\* searchRelevantDocuments(q, id) up to its first await: getOrCreateContext,
\* the searchQuery, and the summary search issued
SearchBegin(caller, id, q) ==
    LET got == GetOrCreateContext(conversationContexts, id, now)
        sq == SearchQuery(q, got[id].previousDocuments)
    IN  /\ conversationContexts' = got
        /\ search' = [IdleSearch EXCEPT
                         !.pc = "summarySearch", !.caller = caller,
                         !.conversation = id, !.query = sq,
                         !.issued = <<Issued("Zhrnutie", NoCaseId, sq,
                                             DISCOVERY_LIMIT)>>]
        /\ UNCHANGED <<now, conversationStates, requestCounts, activeRequests, rx,
                       last, ticks, req, gate, admitted, regen, answer>>

\* a caller awaits searchRelevantDocuments, which awaits the summary search
StartSearch(caller) ==
    /\ search.pc = "idle"
    /\ SearchBegin(caller, SearchConversation, Q1)

\* searchRelevantDocuments(Q1, id) is called by handleRagQuestion
StartSearch_For(id) ==
    /\ search.pc = "idle"
    /\ SearchBegin("handleRagQuestion", id, Q1)

\* Promise.all over one safeSimilaritySearch per discovered case
StartFetches(s) ==
    [s EXCEPT !.pc = "chunkFetch",
              !.fetch = [c \in {s.caseIds[i] : i \in DOMAIN s.caseIds} |->
                            [status |-> "pending", chunks |-> <<>>]],
              !.issued = @ \o [i \in DOMAIN s.caseIds |->
                                 Issued("content", s.caseIds[i], NoSearchQuery,
                                        CHUNK_FETCH_LIMIT)]]

\* mutant: the general search is made whatever the summary search found
AfterSummarySearch_AlwaysGeneral(s, hits) ==
    [s EXCEPT !.caseIds = AddCaseIds(<<>>, hits),
              !.summaryMap = SetSummaries(<< >>, hits),
              !.pc = "generalSearch",
              !.issued = Append(@, Issued("any", NoCaseId, s.query, DISCOVERY_LIMIT))]

\* searchRelevantDocuments from the answer of the summary search to its next
\* await: if (caseIds.size === 0) the general search, else the chunk fetches
AfterSummarySearch(s, hits) ==
    LET found == [s EXCEPT !.caseIds = AddCaseIds(<<>>, hits),
                           !.summaryMap = SetSummaries(<< >>, hits)]
    IN  IF found.caseIds = <<>>
        THEN [found EXCEPT !.pc = "generalSearch",
                           !.issued = Append(@, Issued("any", NoCaseId, s.query,
                                                       DISCOVERY_LIMIT))]
        ELSE StartFetches(found)

\* the summary search answers: collect the case ids and summaries; with no
\* case id the general search is awaited, otherwise the chunk fetches
SummarySearchReturns(hits) ==
    /\ search.pc = "summarySearch"
    /\ search' = AfterSummarySearch(search, hits)
    /\ UNCHANGED <<now, conversationStates, requestCounts, activeRequests, rx, last,
                   ticks, req, gate, admitted, regen,
                   conversationContexts, answer>>

\* the general search answers: collect the case ids, await the chunk fetches
GeneralSearchReturns(hits) ==
    /\ search.pc = "generalSearch"
    /\ search' = StartFetches([search EXCEPT !.caseIds = AddCaseIds(@, hits)])
    /\ UNCHANGED <<now, conversationStates, requestCounts, activeRequests, rx, last,
                   ticks, req, gate, admitted, regen,
                   conversationContexts, answer>>

\* safeSimilaritySearch rethrows and searchRelevantDocuments and its caller
\* rethrow in turn
SimilaritySearchFails ==
    /\ search.pc \in {"summarySearch", "generalSearch"}
    /\ search' = [search EXCEPT !.pc = "raised", !.error = "similaritySearch"]
    /\ UNCHANGED <<now, conversationStates, requestCounts, activeRequests, rx, last,
                   ticks, req, gate, admitted, regen,
                   conversationContexts, answer>>

\* the fetch of the chunks of case c answers
ChunkFetchReturns(c, chunks) ==
    /\ search.pc = "chunkFetch"
    /\ c \in DOMAIN search.fetch
    /\ search.fetch[c].status = "pending"
    /\ search' = [search EXCEPT !.fetch[c] = [status |-> "ok", chunks |-> chunks]]
    /\ UNCHANGED <<now, conversationStates, requestCounts, activeRequests, rx, last,
                   ticks, req, gate, admitted, regen,
                   conversationContexts, answer>>

\* the fetch of the chunks of case c throws: Promise.all rejects at once and
\* searchRelevantDocuments and its caller rethrow
ChunkFetchFails(c) ==
    /\ search.pc = "chunkFetch"
    /\ c \in DOMAIN search.fetch
    /\ search.fetch[c].status = "pending"
    /\ search' = [search EXCEPT !.fetch[c].status = "failed",
                                !.pc = "raised", !.error = "chunkFetch"]
    /\ UNCHANGED <<now, conversationStates, requestCounts, activeRequests, rx, last,
                   ticks, req, gate, admitted, regen,
                   conversationContexts, answer>>

\* every fetch has answered: searchRelevantDocuments returns its results
CombineResults ==
    /\ search.pc = "chunkFetch"
    /\ \A c \in DOMAIN search.fetch : search.fetch[c].status = "ok"
    /\ search' = [search EXCEPT
                     !.pc = "returned",
                     !.results = CombineDocs(search.caseIds, search.summaryMap,
                                             search.fetch)]
    /\ conversationContexts' =
           UpdateContext(conversationContexts, search.conversation,
                         Take(CombineDocs(search.caseIds, search.summaryMap,
                                          search.fetch), CACHED_DOCUMENTS),
                         search.query.query, now)
    /\ UNCHANGED <<now, conversationStates, requestCounts, activeRequests, rx, last,
                   ticks, req, gate, admitted, regen, answer>>

\* the caller resumes with the results: the check of the callers that have
\* one, formatSearchResults, and the completion call with the context
CallerContinues ==
    /\ search.pc = "returned"
    /\ search' = IF ChecksEmpty(search.caller) /\ search.results = <<>>
                 THEN [search EXCEPT !.pc = "raised", !.error = "NO_RELEVANT_DOCS"]
                 ELSE [search EXCEPT !.pc = "completion",
                                     !.context = FormatSearchResults(search.results)]
    /\ UNCHANGED <<now, conversationStates, requestCounts, activeRequests, rx, last,
                   ticks, req, gate, admitted, regen,
                   conversationContexts, answer>>

\* the completion service answers and the caller returns the answer
CompletionReturns ==
    /\ search.pc = "completion"
    /\ search' = [search EXCEPT !.pc = "done"]
    /\ UNCHANGED <<now, conversationStates, requestCounts, activeRequests, rx, last,
                   ticks, req, gate, admitted, regen,
                   conversationContexts, answer>>

\* formatSearchResults called on a hit list
FormatCall ==
    /\ search.pc = "results"
    /\ search' = [search EXCEPT !.pc = "formatted",
                                !.context = FormatSearchResults(search.results)]
    /\ UNCHANGED <<now, conversationStates, requestCounts, activeRequests, rx, last,
                   ticks, req, gate, admitted, regen,
                   conversationContexts, answer>>

-----------------------------------------------------------------------------
(* SpecSearch: one retrieval request on a store of two cases *)

SeqsUpTo(S, n) == UNION {[1..k -> S] : k \in 0..n}

\* what the summary search (filter type = 'Zhrnutie') can answer
SummaryAnswers ==
    SeqsUpTo({SummaryDoc(c) : c \in Cases \cup {NoCaseId}}, MaxHits)

\* what the general search can answer; only the caseId of a hit is read
GeneralAnswers ==
    SeqsUpTo({ContentDoc(c, 0) : c \in Cases \cup {NoCaseId}}, MaxHits)

\* what the fetch with the filter caseId = c, type = 'content' can answer:
\* distinct chunks of the case in any order
ChunkAnswers(c) ==
    {h \in SeqsUpTo({ContentDoc(c, i) : i \in 0..MaxChunkIndex}, MaxChunks) :
        \A i, j \in DOMAIN h : i # j => h[i] # h[j]}

InitSearch == InitService /\ rx = IdleFrame

NextSearch ==
    \/ \E caller \in Callers : StartSearch(caller)
    \/ \E hits \in SummaryAnswers : SummarySearchReturns(hits)
    \/ \E hits \in GeneralAnswers : GeneralSearchReturns(hits)
    \/ SimilaritySearchFails
    \/ \E c \in Cases :
          \/ \E chunks \in ChunkAnswers(c) : ChunkFetchReturns(c, chunks)
          \/ ChunkFetchFails(c)
    \/ CombineResults
    \/ CallerContinues
    \/ CompletionReturns

SpecSearch == InitSearch /\ [][NextSearch]_vars

\* C11: a chunk fetch that fails does not make the search fail: the search
\* returns, and what it returns holds the chunks of every other discovered case.
C11_FetchFailureTolerated ==
    (\E c \in DOMAIN search.fetch : search.fetch[c].status = "failed") =>
        /\ search.error # "chunkFetch"
        /\ search.pc \in {"returned", "completion", "done"} =>
              \A c \in DOMAIN search.fetch :
                 \A i \in DOMAIN search.fetch[c].chunks :
                    Position(search.results, search.fetch[c].chunks[i]) > 0

\* C12: a caller that got zero documents from the search raises
\* NO_RELEVANT_DOCS and never reaches its completion call.
C12_NoCompletionOnEmptyResults ==
    /\ search.pc \in {"completion", "done"} => search.results # <<>>
    /\ (search.pc = "raised" /\ search.error = "NO_RELEVANT_DOCS")
          => search.results = <<>>

\* C14: the case blocks of the context handed to the completion service are in
\* the order in which the search discovered their case ids.
C14_DiscoveryOrder ==
    search.pc \in {"completion", "done"} =>
        \A i, j \in DOMAIN search.context.blocks :
           i < j => Position(search.caseIds, search.context.blocks[i].caseId)
                       < Position(search.caseIds, search.context.blocks[j].caseId)

\* C15: the context handed to the completion service has at most MAX_CHARS
\* characters plus the truncation marker, and ends with the marker whenever the
\* concatenation of the case blocks is longer than MAX_CHARS.
C15_ContextBudget ==
    search.pc \in {"completion", "done"} =>
        /\ search.context.len <= MAX_CHARS + TruncationMarker.len
        /\ FormatSearchResults(search.results).len > MAX_CHARS => search.context.marked

-----------------------------------------------------------------------------
(* SpecCache: successive retrieval requests of two conversations, with the  *)
(* retrieval cache they read and write, while the clock advances            *)

CacheConversations == {"u1", "u2"}

CacheCallers == {"handleRagQuestion"}

Q2 == Text("q2", 60)

CacheQueries == {Q1, Q2}

\* the summary search finds nothing, a summary without caseId, or case A
CacheSummaryAnswers ==
    {<<>>, <<SummaryDoc(NoCaseId)>>, <<SummaryDoc("A")>>}

\* the general search finds nothing or a chunk of case B
CacheGeneralAnswers == {<<>>, <<ContentDoc("B", 0)>>}

\* the fetch for case c finds nothing or its chunks 0..MaxChunks - 1
CacheChunkAnswers(c) ==
    {<<>>, [i \in 1..MaxChunks |-> ContentDoc(c, i - 1)]}

CacheTickSteps == {1, CONTEXT_EXPIRY_MS + 1}

CacheTick == \E d \in CacheTickSteps : Tick(d)

\* the next call of searchRelevantDocuments, once the one before is over
NextSearchBegins(caller, id, q) ==
    /\ search.pc \in {"idle", "returned", "raised"}
    /\ SearchBegin(caller, id, q)

InitCache == InitService /\ rx = IdleFrame

NextCache ==
    \/ CacheTick
    \/ \E caller \in CacheCallers, id \in CacheConversations, q \in CacheQueries :
          NextSearchBegins(caller, id, q)
    \/ \E hits \in CacheSummaryAnswers : SummarySearchReturns(hits)
    \/ \E hits \in CacheGeneralAnswers : GeneralSearchReturns(hits)
    \/ SimilaritySearchFails
    \/ \E c \in Cases :
          \/ \E chunks \in CacheChunkAnswers(c) : ChunkFetchReturns(c, chunks)
          \/ ChunkFetchFails(c)
    \/ CombineResults

SpecCache == InitCache /\ [][NextCache]_vars

\* the documents cached for id as a getOrCreateContext at time t finds them
CachedDocuments(contexts, id, t) ==
    IF id \in DOMAIN contexts /\ t - contexts[id].timestamp <= CONTEXT_EXPIRY_MS
    THEN contexts[id].previousDocuments
    ELSE <<>>

\* C26: a search issues the summary-filtered search with limit DISCOVERY_LIMIT
\* first; it issues the unfiltered search exactly when the summary search
\* answered with no case id, with the same query and limit; it issues no
\* other discovery search, and every chunk fetch comes after them.
C26_GeneralSearchFallback ==
    [][/\ (search.pc = "summarySearch" /\ search'.pc \notin {"summarySearch", "raised"}) =>
            /\ search'.pc = "generalSearch" <=> DOMAIN search'.summaryMap = {}
            /\ search'.pc = "generalSearch" =>
                  search'.issued = <<search.issued[1],
                                     [search.issued[1] EXCEPT !.type = "any"]>>
            /\ search'.pc # "generalSearch" =>
                  /\ search'.pc = "chunkFetch"
                  /\ \A i \in DOMAIN search'.issued :
                        search'.issued[i].type = "any" => FALSE
       /\ search'.pc # "idle" =>
            /\ search'.issued[1] = Issued("Zhrnutie", NoCaseId, search'.query,
                                          DISCOVERY_LIMIT)
            /\ \A i \in DOMAIN search'.issued :
                  /\ i > 2 => search'.issued[i].type = "content"
                  /\ i > 1 => search'.issued[i].type # "Zhrnutie"
                  /\ search'.issued[i].type = "content" =>
                        search'.issued[i].caseId \in Cases]_vars

\* a search whose summary search found only a summary without caseId made
\* the general search with the same query, which held cached documents, and
\* then fetched the chunks of the case that search discovered
C26_Witness ==
    /\ search.pc = "returned"
    /\ search.query.withContext
    /\ DOMAIN search.summaryMap = {}
    /\ search.caseIds = <<"B">>
    /\ Len(search.issued) = 3
    /\ search.issued[2] = Issued("any", NoCaseId, search.query, DISCOVERY_LIMIT)
    /\ search.issued[3].caseId = "B"

\* C27: the cached document list of every conversation has at most
\* CACHED_DOCUMENTS entries; the step in which a search returns its hits
\* stores the first CACHED_DOCUMENTS of them as the cached list of its
\* conversation, with the time of the step as timestamp; the step in which a
\* search raises leaves the retrieval cache as it was, and so does, for the
\* documents a lookup at that time finds cached, every other step of a search.
C27_RetrievalCache ==
    [][/\ \A id \in DOMAIN conversationContexts' :
             Len(conversationContexts'[id].previousDocuments) <= CACHED_DOCUMENTS
       /\ (search.pc # "returned" /\ search'.pc = "returned") =>
             LET c == conversationContexts'[search.conversation]
                 n == Len(search'.results)
             IN  /\ c.previousDocuments
                       = SubSeq(search'.results, 1, IF n < 2 THEN n ELSE 2)
                 /\ c.timestamp = now
       /\ (search.pc # "raised" /\ search'.pc = "raised") =>
             conversationContexts' = conversationContexts
       /\ (search'.pc # "returned" /\ now' = now) =>
             \A id \in CacheConversations :
                CachedDocuments(conversationContexts', id, now)
                   = CachedDocuments(conversationContexts, id, now)]_vars

\* a search of a conversation whose cache held two documents returned a
\* single hit, and the cache holds that hit alone
C27_Witness ==
    /\ search.pc = "returned"
    /\ Len(search.query.docs) = 2
    /\ Len(search.results) = 1
    /\ conversationContexts[search.conversation].previousDocuments = search.results
    /\ conversationContexts[search.conversation].timestamp = now

-----------------------------------------------------------------------------
(* SpecFrame: the operations of two conversation ids interleaved: state     *)
(* operations, a handleChat invocation whose pipeline answers, and one      *)
(* retrieval request                                                        *)

FrameUsers == {"u1", "u2"}

\* the invocations of handleChat that are made
FrameReqs == {"r1"}

\* who calls handleChat: the ids are interchangeable
FrameChatUsers == {"u1"}

FrameQuestions == {Q1, QSpaces}

FrameResponses == {A1}

FramePartials ==
    {Partial({"currentCase", "lastResponse"}, <<>>, <<>>, A1, "case1", FALSE)}

FrameOutcomes == {[path |-> "primary", lines |-> <<S1, K(1)>>]}

FrameSummaryAnswers == {<<>>}

FrameGeneralAnswers == {<<ContentDoc("B", 0)>>}

FrameChunkAnswers(c) == {<<ContentDoc(c, 0)>>}

InitFrame == InitService /\ rx = IdleFrame

NextFrame ==
    \/ \E u \in FrameUsers :
          \/ GetOrCreateStateCall(u)
          \/ \E p \in FramePartials : UpdateStateCall(u, p)
          \/ ClearConversationCall(u)
          \/ \E o \in FrameOutcomes : OptimizeCall(u, o)
          \/ StartSearch_For(u)
    \/ \E r \in FrameReqs :
          \/ \E u \in FrameChatUsers, q \in FrameQuestions : ChatStart(r, u, q)
          \/ ChatValidate(r)
          \/ ChatReject(r)
          \/ ChatEnter(r)
          \/ \E a \in FrameResponses : ChatRagSucceeds(r, a)
          \/ \E o \in FrameOutcomes : ChatTurnSummaryDone(r, o)
    \/ \E hits \in FrameSummaryAnswers : SummarySearchReturns(hits)
    \/ \E hits \in FrameGeneralAnswers : GeneralSearchReturns(hits)
    \/ SimilaritySearchFails
    \/ \E c \in Cases :
          \/ \E chunks \in FrameChunkAnswers(c) : ChunkFetchReturns(c, chunks)
          \/ ChunkFetchFails(c)
    \/ CombineResults

SpecFrame == InitFrame /\ [][NextFrame]_vars

\* the two maps hold the same for key u
SameFor(m1, m2, u) ==
    /\ u \in DOMAIN m1 <=> u \in DOMAIN m2
    /\ u \in DOMAIN m1 => m1[u] = m2[u]

\* the step is one of an operation called for u: a state operation, a step
\* of a handleChat invocation, or a step of a retrieval request
StepFor(u) ==
    \/ last'.tick # last.tick /\ last'.user = u
    \/ \E r \in Reqs : req'[r] # req[r] /\ req'[r].user = u
    \/ search' # search /\ search'.conversation = u

\* C28: a step of an operation on one conversation id leaves the
\* ConversationState and the retrieval context stored for every other id as
\* they were, whatever operations on the other id are under way.
C28_OtherIdsUntouched ==
    [][\A u \in FrameUsers : \A v \in FrameUsers \ {u} :
          StepFor(u) =>
              /\ SameFor(conversationStates', conversationStates, v)
              /\ SameFor(conversationContexts', conversationContexts, v)]_vars

\* a handleChat of u1 has returned its answer and a search of u2 its hits
\* while the state of u2 came from an updateState: each id holds its own
C28_Witness ==
    /\ \E r \in Reqs : req[r].pc = "done" /\ req[r].outcome = "ok" /\ req[r].user = "u1"
    /\ \A r \in Reqs : req[r].user # "u2"
    /\ DOMAIN conversationStates = FrameUsers
    /\ conversationStates["u1"].lastResponse = A1
    /\ Len(conversationStates["u1"].history) = 2
    /\ conversationStates["u2"].currentCase = "case1"
    /\ conversationStates["u2"].history = <<>>
    /\ search.pc = "returned"
    /\ search.conversation = "u2"
    /\ DOMAIN conversationContexts = {"u2"}
    /\ conversationContexts["u2"].previousDocuments # <<>>

-----------------------------------------------------------------------------
(* generateResponseWithContext and the three classification checks *)

\* a completion response: the word it holds, whether it is padded with white
\* space and whether it is in upper case
Response(word, padded, upper) == [word |-> word, padded |-> padded, upper |-> upper]

\* response.trim().toLowerCase()
TrimLower(r) == [r EXCEPT !.padded = FALSE, !.upper = FALSE]

\* the literal 'áno'
Yes == Response("yes", FALSE, FALSE)

\* how a completion call ends: it throws, or it answers with a response
Thrown == [ok |-> FALSE, response |-> Response("none", FALSE, FALSE)]

Answered(r) == [ok |-> TRUE, response |-> r]

\* mutant: a failed call counts as a legal question
IsLegalQuestion_DefaultTrue(outcome) ==
    IF outcome.ok THEN TrimLower(outcome.response) = Yes ELSE TRUE

\* isLegalQuestion: response.trim().toLowerCase() === 'áno', catch: false
IsLegalQuestion(outcome) ==
    IF outcome.ok THEN TrimLower(outcome.response) = Yes ELSE FALSE

\* classifyLegalDomain: domain.trim().toLowerCase(), catch: 'iné'
ClassifyLegalDomain(outcome) ==
    IF outcome.ok THEN TrimLower(outcome.response).word ELSE "other"

\* decideIfRagNeeded: response.trim().toLowerCase() === 'áno', catch: false
DecideIfRagNeeded(outcome) ==
    IF outcome.ok THEN TrimLower(outcome.response) = Yes ELSE FALSE

\* the classes that have a generateResponseWithContext
Variants == {"streamController", "retrievalService"}

CheckNames == {"legal", "domain", "rag"}

\* what the check named k returns for the outcome of its completion call
CheckValue(k, outcome) ==
    IF k = "legal" THEN [status |-> IF outcome.ok THEN "ok" ELSE "failed",
                         value |-> IF IsLegalQuestion(outcome) THEN "true" ELSE "false"]
    ELSE IF k = "rag" THEN [status |-> IF outcome.ok THEN "ok" ELSE "failed",
                            value |-> IF DecideIfRagNeeded(outcome) THEN "true" ELSE "false"]
    ELSE [status |-> IF outcome.ok THEN "ok" ELSE "failed",
          value |-> ClassifyLegalDomain(outcome)]

\* the word the completion service answers to the prompt of check k for
\* question q
CheckWord(k, q) ==
    IF k = "legal" THEN (IF q.legal THEN "yes" ELSE "no")
    ELSE IF k = "rag" THEN (IF q.rag THEN "yes" ELSE "no")
    ELSE q.domain

\* updateContext(conversationId, {history, previousDomain}) of the controller
UpdateContextDomain(contexts, id, history, domain, t) ==
    LET got == GetOrCreateContext(contexts, id, t)
    IN  Put(got, id, [got[id] EXCEPT
                        !.history = SliceLast(history, MAX_HISTORY_LENGTH),
                        !.previousDomain = IF domain # "" THEN Text(domain, 1) ELSE @,
                        !.timestamp = t])

\* generateResponseWithContext(question, context, history, id) is called.
\* The controller gets its context and starts the three checks, each up to
\* its completion call; the service builds its prompt and makes the
\* completion call for the answer
AnswerStart(variant, id, q) ==
    /\ answer.pc = "idle"
    /\ IF variant = "streamController"
       THEN /\ conversationContexts' = GetOrCreateContext(conversationContexts, id, now)
            /\ answer' = [IdleAnswer EXCEPT
                             !.pc = "checks", !.variant = variant,
                             !.conversation = id, !.question = q,
                             !.checks = [k \in CheckNames |->
                                            [status |-> "pending", value |-> "none"]],
                             !.calls.checks = 3]
       ELSE /\ conversationContexts' = conversationContexts
            /\ answer' = [IdleAnswer EXCEPT
                             !.pc = "completion", !.variant = variant,
                             !.conversation = id, !.question = q,
                             !.calls.answer = 1]
    /\ UNCHANGED <<now, conversationStates, requestCounts, activeRequests, rx, last,
                   ticks, req, gate, search, admitted, regen>>

\* the completion call of check k answers in some spelling, or throws
CheckEnds(k, outcome) ==
    /\ answer.pc = "checks"
    /\ answer.checks[k].status = "pending"
    /\ outcome.ok => outcome.response.word = CheckWord(k, answer.question)
    /\ answer' = [answer EXCEPT !.checks[k] = CheckValue(k, outcome)]
    /\ UNCHANGED <<now, conversationStates, requestCounts, activeRequests, rx, last,
                   ticks, req, gate, search, admitted, regen, conversationContexts>>

\* Promise.all has resolved: the two refusals, or updateContext and the
\* completion call for the answer
ChecksResolved(history) ==
    /\ answer.pc = "checks"
    /\ \A k \in CheckNames : answer.checks[k].status \in {"ok", "failed"}
    /\ IF answer.checks["legal"].value = "false"
       THEN /\ answer' = [answer EXCEPT !.pc = "returned", !.result = "INVALID_QUERY"]
            /\ conversationContexts' = conversationContexts
       ELSE IF answer.checks["rag"].value = "false"
       THEN /\ answer' = [answer EXCEPT !.pc = "returned", !.result = "NO_SEARCH_NEEDED"]
            /\ conversationContexts' = conversationContexts
       ELSE /\ answer' = [answer EXCEPT !.pc = "completion", !.calls.answer = @ + 1]
            /\ conversationContexts' =
                  UpdateContextDomain(conversationContexts, answer.conversation,
                      conversationContexts[answer.conversation].history \o history,
                      answer.checks["domain"].value, now)
    /\ UNCHANGED <<now, conversationStates, requestCounts, activeRequests, rx, last,
                   ticks, req, gate, search, admitted, regen>>

\* the completion call for the answer returns: return response
AnswerReturns ==
    /\ answer.pc = "completion"
    /\ answer' = [answer EXCEPT !.pc = "returned", !.result = "response"]
    /\ UNCHANGED <<now, conversationStates, requestCounts, activeRequests, rx, last,
                   ticks, req, gate, search, admitted, regen, conversationContexts>>

\* the completion call for the answer throws: catch, log, rethrow
AnswerFails ==
    /\ answer.pc = "completion"
    /\ answer' = [answer EXCEPT !.pc = "raised"]
    /\ UNCHANGED <<now, conversationStates, requestCounts, activeRequests, rx, last,
                   ticks, req, gate, search, admitted, regen, conversationContexts>>

-----------------------------------------------------------------------------
(* SpecAnswer: one generateResponseWithContext call of either variant, on   *)
(* questions of every classification                                        *)

AnswerUsers == {"u1"}

AnswerQuestions ==
    {[legal |-> l, rag |-> r, domain |-> d] :
        l \in BOOLEAN, r \in BOOLEAN, d \in {"criminal", ""}}

\* a check answers plainly or padded and in upper case
CheckOutcomes ==
    {Thrown}
    \cup {Answered(Response(w, s, s)) :
             w \in {"yes", "no", "criminal", ""}, s \in BOOLEAN}

AnswerHistories == {<<UserQ>>}

AnswerTickSteps == {1}

AnswerTick == \E d \in AnswerTickSteps : Tick(d)

InitAnswer == InitService /\ rx = IdleFrame

NextAnswer ==
    \/ AnswerTick
    \/ \E v \in Variants, id \in AnswerUsers, q \in AnswerQuestions : AnswerStart(v, id, q)
    \/ \E k \in CheckNames, o \in CheckOutcomes : CheckEnds(k, o)
    \/ \E h \in AnswerHistories : ChecksResolved(h)
    \/ AnswerReturns
    \/ AnswerFails

SpecAnswer == InitAnswer /\ [][NextAnswer]_vars

\* C24: a classification check whose completion call failed has returned its
\* default (false, 'iné', false); no check raises, so the method raises only
\* from the completion call for the answer; and when the calls of all three
\* checks have failed it returns a text, the INVALID_QUERY message.
C24_ChecksDegrade ==
    /\ \A k \in CheckNames :
          answer.checks[k].status = "failed" =>
              answer.checks[k].value = IF k = "domain" THEN "other" ELSE "false"
    /\ answer.pc = "raised" => answer.calls.answer = 1
    /\ (/\ answer.pc # "checks"
        /\ \A k \in CheckNames : answer.checks[k].status = "failed") =>
           /\ answer.pc = "returned"
           /\ answer.result = "INVALID_QUERY"
           /\ answer.calls.answer = 0

\* the calls of all three checks have failed and the method has returned
C24_Witness ==
    /\ answer.pc = "returned"
    /\ answer.variant = "streamController"
    /\ answer.question.legal
    /\ answer.question.rag
    /\ \A k \in CheckNames : answer.checks[k].status = "failed"
    /\ answer.result = "INVALID_QUERY"

\* C25: once generateResponseWithContext is past its checks, if the question
\* is not a legal one or needs no retrieval it has returned one of the two
\* fixed strings and made no completion call for the answer; otherwise it
\* has made exactly one.  The verdicts are those its checks returned, and
\* for the variant that runs no check those the checks would return.
C25_RefusalWithoutCompletion ==
    answer.pc \in {"completion", "returned", "raised"} =>
        LET checked == answer.variant = "streamController"
            isLegal == IF checked THEN answer.checks["legal"].value = "true"
                       ELSE answer.question.legal
            needsRag == IF checked THEN answer.checks["rag"].value = "true"
                        ELSE answer.question.rag
        IN  IF ~isLegal \/ ~needsRag
            THEN /\ answer.calls.answer = 0
                 /\ answer.pc = "returned"
                 /\ answer.result \in {"INVALID_QUERY", "NO_SEARCH_NEEDED"}
            ELSE answer.calls.answer = 1

-----------------------------------------------------------------------------
(* SpecClear: one handleChat invocation whose pipeline answers, with        *)
(* clearConversation called for its user at any moment                      *)

ClearUsers == {"u1"}

ClearReqs == {"r1"}

ClearQuestions == {Q1, QSpaces}

ClearResponses == {A1, AsstHuge.content}

InitClear == InitService /\ rx = IdleFrame

NextClear ==
    \/ ChatTick
    \/ \E u \in ClearUsers : ClearConversationCall(u)
    \/ \E r \in ClearReqs :
          \/ \E u \in ClearUsers, q \in ClearQuestions : ChatStart(r, u, q)
          \/ ChatValidate(r)
          \/ ChatReject(r)
          \/ ChatEnter(r)
          \/ \E a \in ClearResponses : ChatRagSucceeds(r, a)
          \/ \E o \in TurnOutcomes : ChatTurnSummaryDone(r, o)

SpecClear == InitClear /\ [][NextClear]_vars

-----------------------------------------------------------------------------
(* SpecFormat: formatSearchResults on lists of distinct hits in every order *)

\* the stored documents: the summary and the chunks 0..MaxChunkIndex of case A,
\* the chunks of case B, which has one fewer and no summary, and a chunk whose
\* payload has no caseId
FormatDocs ==
    {SummaryDoc("A"), ContentDoc(NoCaseId, 0)}
    \cup {ContentDoc("A", i) : i \in 0..MaxChunkIndex}
    \cup {ContentDoc("B", i) : i \in 0..(MaxChunkIndex - 1)}

FormatHitLists ==
    {h \in SeqsUpTo(FormatDocs, MaxFormatHits) :
        \A i, j \in DOMAIN h : i # j => h[i] # h[j]}

InitFormat ==
    /\ now = 0
    /\ conversationStates = << >>
    /\ requestCounts = << >>
    /\ activeRequests = 0
    /\ last = NoCall
    /\ ticks = 0
    /\ req = [r \in Reqs |-> IdleReq]
    /\ gate = IdleGate
    /\ rx = IdleFrame
    /\ admitted = << >>
    /\ regen = IdleRegen
    /\ conversationContexts = << >>
    /\ answer = IdleAnswer
    /\ \E h \in FormatHitLists :
          search = [IdleSearch EXCEPT !.pc = "results", !.results = h]

NextFormat == FormatCall

SpecFormat == InitFormat /\ [][NextFormat]_vars

\* the chunkIndex values of the content chunks of a block, in block order
ChunkIndexes(block) ==
    LET chunks == OfType(block.body, "content")
    IN  [i \in DOMAIN chunks |-> chunks[i].chunkIndex]

\* C13: the formatted context has exactly one block per case id of the hit
\* list; in a block every summary comes before every content chunk, the
\* content chunks are in ascending chunkIndex order, every document of a block
\* has the block's case id, and every summary and content chunk of the hit
\* list is in the block of its case.
C13_CaseBlocks ==
    search.pc = "formatted" =>
        LET blocks == search.context.blocks
            hits == search.results
        IN  /\ \A i, j \in DOMAIN blocks :
                  i # j => blocks[i].caseId # blocks[j].caseId
            /\ {blocks[i].caseId : i \in DOMAIN blocks}
                  = {CaseKey(hits[i]) : i \in DOMAIN hits}
            /\ \A b \in DOMAIN blocks :
                  LET body == blocks[b].body
                  IN  /\ \A i, j \in DOMAIN body :
                            i < j =>
                               /\ ~(body[i].type = "content" /\ body[j].type = "Zhrnutie")
                               /\ (body[i].type = "content" /\ body[j].type = "content")
                                     => body[i].chunkIndex <= body[j].chunkIndex
                      /\ \A i \in DOMAIN body : CaseKey(body[i]) = blocks[b].caseId
                      /\ \A i \in DOMAIN hits :
                            CaseKey(hits[i]) = blocks[b].caseId
                               => Position(body, hits[i]) > 0

\* hits of two cases with content chunks at indexes [2,0,1] and [1,0],
\* interleaved, came out as one block per case with [0,1,2] and [0,1]
C13_Witness ==
    /\ search.pc = "formatted"
    /\ search.results = <<ContentDoc("A", 2), ContentDoc("B", 1), ContentDoc("A", 0),
                          ContentDoc("B", 0), ContentDoc("A", 1)>>
    /\ Len(search.context.blocks) = 2
    /\ search.context.blocks[1].caseId = "A"
    /\ ChunkIndexes(search.context.blocks[1]) = <<0, 1, 2>>
    /\ ChunkIndexes(search.context.blocks[2]) = <<0, 1>>

-----------------------------------------------------------------------------
(* Claims on a turn of handleChat *)

\* what a conversation state holds of the exchange: everything but the
\* summary, key points and analysis that a regeneration writes
Exchange(st) ==
    [history |-> st.history, previousQuestions |-> st.previousQuestions,
     lastResponse |-> st.lastResponse, messages |-> st.openAIContext.messages]

\* C23: the end of a summary regeneration never raises into handleChat: after
\* the regeneration inside optimizeOpenAIContext the invocation goes on to
\* handleRagQuestion, after the closing one it returns the answer, and in both
\* cases the attempts made, the waits and everything stored of the exchange
\* are the same whether the regeneration succeeded or failed altogether.
C23_RegenerationAbsorbed ==
    [][\A r \in Reqs :
          (req[r].pc \in {"optSummary", "turnSummary"} /\ req'[r] # req[r]) =>
              /\ req'[r].pc = IF req[r].pc = "optSummary" THEN "rag" ELSE "done"
              /\ req[r].pc = "turnSummary" => req'[r].outcome = "ok"
              /\ req'[r].retry.calls = req[r].retry.calls
              /\ req'[r].retry.fails = req[r].retry.fails
              /\ req'[r].retry.waits = req[r].retry.waits
              /\ \A u \in DOMAIN conversationStates :
                    /\ u \in DOMAIN conversationStates'
                    /\ Exchange(conversationStates'[u])
                          = [Exchange(conversationStates[u]) EXCEPT
                                !.messages = IF req[r].pc = "optSummary" /\ Attached(req[r])
                                             THEN req[r].messages ELSE @]]_vars

\* the second of two invocations found the context over the budget in both
\* its attempts and returned its answer after the first had failed, although
\* the regenerations inside optimizeOpenAIContext and the closing ones had
\* all failed: no summary was ever stored
C23_Witness ==
    /\ req["r1"].pc = "done"
    /\ req["r1"].outcome = "ok"
    /\ req["r1"].retry.fails = 0
    /\ req["r2"].pc = "done"
    /\ req["r2"].outcome = "ok"
    /\ req["r2"].retry.fails = 1
    /\ "u1" \in DOMAIN conversationStates
    /\ conversationStates["u1"].openAIContext.summary = EmptyText
    /\ conversationStates["u1"].openAIContext.messages = <<SystemMessage, UserQ, UserQ>>
    /\ Len(conversationStates["u1"].history) = 5
    /\ conversationStates["u1"].lastResponse = AsstHuge.content

\* C30: an invocation that returns an answer has added to the history of its
\* conversation the question once and the answer once, and the question once
\* to previousQuestions, however many attempts failed before.  Stated for the
\* only invocation made on a conversation that started empty.
C30_OneExchangePerTurn ==
    [][\A r \in Reqs :
          (/\ req[r].pc = "turnSummary"
           /\ req'[r].pc = "done"
           /\ \A o \in Reqs \ {r} : req[o].pc = "idle") =>
              LET st == conversationStates'[req[r].user]
              IN  /\ st.history = <<Msg("user", req[r].question),
                                    Msg("assistant", req[r].response)>>
                  /\ st.previousQuestions = <<req[r].question>>]_vars

\* C31: an invocation that raises after its last attempt has failed leaves the
\* history and previousQuestions of its conversation as they were before the
\* call.  Stated for the only invocation made on a conversation that started
\* empty: nothing is stored for it, or empty lists.
C31_FailedTurnLeavesNothing ==
    [][\A r \in Reqs :
          (/\ req[r].pc = "rag"
           /\ req'[r].pc = "done"
           /\ req'[r].outcome = "failed"
           /\ \A o \in Reqs \ {r} : req[o].pc = "idle"
           /\ req[r].user \in DOMAIN conversationStates') =>
              LET st == conversationStates'[req[r].user]
              IN  /\ st.history = <<>>
                  /\ st.previousQuestions = <<>>]_vars

\* the number of entries of role `role` in a history
RoleCount(history, role) ==
    Cardinality({i \in DOMAIN history : history[i].role = role})

\* C32: when two invocations for the same conversation have both returned
\* their answer at their first attempt, the history of the conversation holds
\* both questions and both answers.
C32_NoLostUpdate ==
    (/\ \A r \in Reqs : /\ req[r].pc = "done"
                        /\ req[r].outcome = "ok"
                        /\ req[r].retry.fails = 0
     /\ req["r1"].user = req["r2"].user
     /\ req["r1"].user \in DOMAIN conversationStates) =>
        LET history == conversationStates[req["r1"].user].history
        IN  /\ RoleCount(history, "user") >= 2
            /\ RoleCount(history, "assistant") >= 2

\* C33: once clearConversation(id) has removed a state that held history
\* entries, no entry that was in that history is in the state of id again.
\* Stated for the single invocation of SpecClear, which stores its question,
\* the only valid one, once and before the clear.
C33_ClearedStaysCleared ==
    \A u \in ClearUsers :
        (/\ last.op = "clearConversation"
         /\ last.user = u
         /\ last.found.entries > 0
         /\ u \in DOMAIN conversationStates) =>
            \A i \in DOMAIN conversationStates[u].history :
                conversationStates[u].history[i] # Msg("user", Q1)

-----------------------------------------------------------------------------
(* SpecBackoff: both retry executors run under every policy *)

\* the policies a retry executor can be configured with
BackoffPolicies == UtilPolicies \cup {ChatPolicy}

InitBackoff ==
    /\ InitService
    /\ rx \in {RetryFrame(kind, p) : kind \in {"chat", "util"}, p \in BackoffPolicies}

SpecBackoff == InitBackoff /\ [][NextRetry]_vars

C35_RejectionConsumesNoQuota ==
    [][\A r \in Reqs :
          (/\ req[r].pc = "cleaned" /\ req'[r].pc = "validated"
           /\ req'[r].errors # {} /\ "rate" \notin req'[r].errors) =>
              requestCounts' = requestCounts]_vars

-----------------------------------------------------------------------------
(* SpecRepeat: optimizeOpenAIContext called again and again on a history    *)
(* that grows, with summary regenerations in between, as successive turns   *)
(* of handleChat do                                                         *)

RepeatUsers == {"u1"}

\* the cached list may grow to this length before optimize is called no more
MaxAccumulated == 6

\* an answer of 3000 estimated tokens
Mid(i) == Msg("assistant", Text("a-mid" \o ToString(i), 12000))

\* the history of one conversation at four moments of its life
RepeatFull == <<UserMsg(1), Mid(1), Mid(2), Mid(3)>>

RepeatHistories == {SubSeq(RepeatFull, 1, n) : n \in 1..Len(RepeatFull)}

RepeatTickSteps == {1}

RepeatTick == \E d \in RepeatTickSteps : Tick(d)

\* optimizeOpenAIContext(state) run to completion by a single caller
OptimizeRepeated(u, outcome) ==
    /\ u \in DOMAIN conversationStates
    /\ Len(conversationStates[u].openAIContext.messages) < MaxAccumulated
    /\ LET b == OptimizeBuild(conversationStates[u], now)
           summarized == IF b.over
                         THEN UpdateConversationSummary(b.state, outcome, now)
                         ELSE b.state
       IN  /\ conversationStates' =
                  Put(conversationStates, u, OptimizeCommit(summarized, b.messages, now))
           /\ Called("optimize", u, b.over)
    /\ UNCHANGED <<now, requestCounts, activeRequests, rx, ticks, req, gate, search, admitted, regen,
                   conversationContexts, answer>>

InitRepeat == InitService /\ rx = IdleFrame

NextRepeat ==
    \/ RepeatTick
    \/ \E u \in RepeatUsers :
          \/ \E h \in RepeatHistories : UpdateConversationHistoryCall(u, h)
          \/ \E o \in OptOutcomes : UpdateConversationSummaryCall(u, o)
          \/ \E o \in OptOutcomes : OptimizeRepeated(u, o)

SpecRepeat == InitRepeat /\ [][NextRepeat]_vars

\* the position of message m in the list
PositionIn(list, m) == CHOOSE i \in DOMAIN list : list[i] = m

\* C36: in the list an optimize call returns, on the normal path and on the
\* over-budget path, the messages that come from the history stand in the
\* order they have in the history, oldest first.
C36_HistoryOrderKept ==
    \A u \in RepeatUsers :
        (last.op = "optimize" /\ last.user = u /\ u \in DOMAIN conversationStates) =>
            LET history == conversationStates[u].history
                messages == conversationStates[u].openAIContext.messages
                fromHistory == {i \in DOMAIN messages :
                                   \E k \in DOMAIN history : history[k] = messages[i]}
            IN  \A i, j \in fromHistory :
                    i < j => PositionIn(history, messages[i]) < PositionIn(history, messages[j])

\* the messages of the list that carry the summary, and those that carry the
\* key points, of the conversation
SummaryMessages(messages) ==
    {i \in DOMAIN messages :
        \E s \in {S1} : messages[i] = SummaryMessage(s)}

KeyPointsMessages(messages) ==
    {i \in DOMAIN messages :
        \E k \in {<<K(1)>>} : messages[i] = KeyPointsMessage(k)}

\* C37: however many optimize calls follow one another on a conversation
\* within the expiry time of its context, the list stored holds at most one
\* summary message and at most one key-points message.
C37_NoAccumulation ==
    \A u \in RepeatUsers :
        u \in DOMAIN conversationStates =>
            LET messages == conversationStates[u].openAIContext.messages
            IN  /\ Cardinality(SummaryMessages(messages)) <= 1
                /\ Cardinality(KeyPointsMessages(messages)) <= 1

\* C38: when optimize finds the cached context expired (now - lastUpdateTime
\* above the expiry time) it discards the cached message list only: the
\* summary and the key points of the conversation are what they were.
C38_ExpiryKeepsSummary ==
    [][\A u \in OptUsers :
          (/\ CallStep("optimize", u)
           /\ ContextExpired(conversationStates[u], now)
           /\ ~last'.result) =>
              LET old == conversationStates[u].openAIContext
                  new == conversationStates'[u].openAIContext
              IN  new.summary = old.summary /\ new.keyPoints = old.keyPoints]_vars

-----------------------------------------------------------------------------
(* SpecForget: clearConversation and one retrieval request of a            *)
(* conversation for which earlier requests have cached documents            *)

ForgetUsers == {"u1"}

\* what earlier retrieval requests of the conversation left in the cache
ForgetCachedDocuments ==
    {<<>>, <<ContentDoc("B", 0)>>, <<SummaryDoc("A"), ContentDoc("A", 0)>>}

ForgetTickSteps == {1}

ForgetTick == \E d \in ForgetTickSteps : Tick(d)

InitForget ==
    /\ now = 0
    /\ conversationStates = << >>
    /\ requestCounts = << >>
    /\ activeRequests = 0
    /\ last = NoCall
    /\ ticks = 0
    /\ req = [r \in Reqs |-> IdleReq]
    /\ gate = IdleGate
    /\ search = IdleSearch
    /\ admitted = << >>
    /\ regen = IdleRegen
    /\ answer = IdleAnswer
    /\ rx = IdleFrame
    /\ \E docs \in ForgetCachedDocuments :
          conversationContexts =
              IF docs = <<>> THEN << >>
              ELSE UpdateContext(<< >>, "u1", docs, Q1, 0)

NextForget ==
    \/ ForgetTick
    \/ \E u \in ForgetUsers :
          \/ UpdateConversationHistoryCall(u, <<Msg("user", Q1)>>)
          \/ ClearConversationCall(u)
          \/ StartSearch_For(u)
    \/ \E hits \in CacheSummaryAnswers : SummarySearchReturns(hits)
    \/ \E hits \in CacheGeneralAnswers : GeneralSearchReturns(hits)
    \/ SimilaritySearchFails
    \/ \E c \in Cases :
          \/ \E chunks \in CacheChunkAnswers(c) : ChunkFetchReturns(c, chunks)
          \/ ChunkFetchFails(c)
    \/ CombineResults

SpecForget == InitForget /\ [][NextForget]_vars

\* C39: the first search of a conversation after clearConversation builds
\* its search query from the raw query alone, whatever documents were cached
\* for the conversation before the clear.
C39_ClearedQueryIsRaw ==
    [][\A u \in ForgetUsers :
          (/\ last.op = "clearConversation" /\ last.user = u
           /\ search.pc = "idle" /\ search'.pc = "summarySearch"
           /\ search'.conversation = u) =>
              search'.query = SearchQuery(Q1, <<>>)]_vars

-----------------------------------------------------------------------------
(* SpecMessage: handleMessage invocations of one conversation, interleaved  *)
(* at their awaits.  No step of this specification removes or replaces a    *)
(* stored state, so the object an invocation holds is the one stored.       *)

MessageUsers == {"u1"}

MessageQuestions == {Q1}

MessageResponses == {A1}

\* what classifyQuestionType resolves to: the parsed reply of the completion
\* service, or isFollowUp false and isNewCase true when the call failed
Classifications == [isFollowUp : BOOLEAN, isNewCase : BOOLEAN]

\* what extractCaseInfo resolves to: a case with caseId, court and caseNumber,
\* or an object without them
CaseInfos == {NoCase, "case1", "case2"}

MessageTickSteps == {1}

MessageTick == \E d \in MessageTickSteps : Tick(d)

\* const state = this.getOrCreateState(conversationId);
\* await this.classifyQuestionType(message, state)
MessageStart(r, id, m) ==
    /\ req[r].pc = "idle"
    /\ LET got == GetOrCreateState(conversationStates, id, now,
                                   FreshOid(conversationStates, id))
       IN  /\ conversationStates' = got
           /\ req' = [req EXCEPT ![r] = [@ EXCEPT !.pc = "classify", !.user = id,
                                                  !.question = m,
                                                  !.state = got[id].oid]]
    /\ UNCHANGED <<now, requestCounts, activeRequests, rx, last, ticks, gate, search,
                   admitted, regen, conversationContexts, answer>>

\* the classification resolves: updateState with isFollowUpQuestion and
\* previousQuestions, then, for a new case, updateState({currentCase: undefined});
\* await retrievalService.handleRagQuestion(message, [], conversationId)
MessageClassified(r, c) ==
    /\ req[r].pc = "classify"
    /\ LET id == req[r].user
           first == UpdateState(conversationStates, id,
                                Partial({"isFollowUpQuestion", "previousQuestions"}, <<>>,
                                        Append(conversationStates[id].previousQuestions,
                                               req[r].question),
                                        EmptyText, NoCase, c.isFollowUp),
                                now, FreshOid(conversationStates, id))
           second == IF c.isNewCase
                     THEN UpdateState(first, id,
                                      Partial({"currentCase"}, <<>>, <<>>, EmptyText,
                                              NoCase, FALSE),
                                      now, FreshOid(first, id))
                     ELSE first
       IN  /\ conversationStates' = second
           /\ req' = [req EXCEPT ![r] = [@ EXCEPT !.pc = "rag", !.classification = c]]
    /\ UNCHANGED <<now, requestCounts, activeRequests, rx, last, ticks, gate, search,
                   admitted, regen, conversationContexts, answer>>

\* handleRagQuestion resolves; await this.extractCaseInfo(response)
MessageRagReturns(r, a) ==
    /\ req[r].pc = "rag"
    /\ req' = [req EXCEPT ![r] = [@ EXCEPT !.pc = "extract", !.response = a]]
    /\ UNCHANGED <<now, conversationStates, requestCounts, activeRequests, rx, last,
                   ticks, gate, search, admitted, regen, conversationContexts, answer>>

\* handleRagQuestion rejects: catch (error) { ...; throw error; }
MessageRagFails(r) ==
    /\ req[r].pc = "rag"
    /\ req' = [req EXCEPT ![r] = [Finished(req[r], "failed") EXCEPT
                                     !.classification = req[r].classification]]
    /\ UNCHANGED <<now, conversationStates, requestCounts, activeRequests, rx, last,
                   ticks, gate, search, admitted, regen, conversationContexts, answer>>

\* extractCaseInfo resolves: updateState with currentCase and lastResponse
\* when the case is complete; return response
MessageCaseExtracted(r, info) ==
    /\ req[r].pc = "extract"
    /\ LET id == req[r].user
       IN  conversationStates' =
               IF info # NoCase
               THEN UpdateState(conversationStates, id,
                                Partial({"currentCase", "lastResponse"}, <<>>, <<>>,
                                        req[r].response, info, FALSE),
                                now, FreshOid(conversationStates, id))
               ELSE conversationStates
    /\ req' = [req EXCEPT ![r] = [Finished(req[r], "ok") EXCEPT
                                     !.classification = req[r].classification]]
    /\ UNCHANGED <<now, requestCounts, activeRequests, rx, last, ticks, gate, search,
                   admitted, regen, conversationContexts, answer>>

InitMessage == InitService /\ rx = IdleFrame

NextMessage ==
    \/ MessageTick
    \/ \E r \in Reqs :
          \/ \E id \in MessageUsers, m \in MessageQuestions : MessageStart(r, id, m)
          \/ \E c \in Classifications : MessageClassified(r, c)
          \/ \E a \in MessageResponses : MessageRagReturns(r, a)
          \/ MessageRagFails(r)
          \/ \E info \in CaseInfos : MessageCaseExtracted(r, info)

SpecMessage == InitMessage /\ [][NextMessage]_vars

\* C40: when handleMessage has classified the question as a new case, the
\* conversation has no currentCase once the state update that follows the
\* classification is made, before the retrieval starts.
C40_NewCaseClearsCurrentCase ==
    [][\A r \in Reqs :
          (/\ req[r].pc = "classify" /\ req'[r].pc = "rag"
           /\ req'[r].classification.isNewCase) =>
              conversationStates'[req[r].user].currentCase = NoCase]_vars

=============================================================================
